---- MODULE Spec2Model ----
(***************************************************************************)
(* RLNC-demo: the gossip simulation of main.go (simulate, Peer.run,        *)
(* Peer.forward, Peer.isInnovative, mixSymbol, GF) as a state machine.     *)
(*                                                                         *)
(* The orchestrator (simulate) wires the peers, starts one worker per      *)
(* peer, injects symbols through peer 0's neighbour list, sleeps, closes   *)
(* every done channel, waits for the workers and tallies.  Each worker     *)
(* (Peer.run) takes one message at a time from its inbox.                  *)
(***************************************************************************)
EXTENDS Integers, Sequences, FiniteSets, TLC

\* ---------------------------------------------------------------- sizes
\* Scaled-down sizes of the run (main.go: k = 64, numPeers = 4,
\* inbox capacity 10000, chunkSize = 1024, field bits 8 or 16).
k == 1
numPeers == 3
InboxCap == 2
chunkSize == 1
FieldBits == 2
\* Largest source byte crand.Read may produce in the model.
MaxSrcByte == 1
\* rand.Float64() is modelled as d / LossDen for d in 0..LossDen-1, and the
\* loss probability as lossProb / LossDen for lossProb in 0..LossDen.
LossDen == 2
\* Out-degree of every peer (main.go: fanout = 2).
fanout == 1
\* The out-degree main.go sets (fanout = 2), for the wiring loop run on its own.
WireFanout == 2
\* Number of source symbols, and largest source byte, where mixSymbol is run on
\* its own.
MixK == 2
MixMaxByte == 3
\* Largest fileSize and chunkSize where encodeFile is run on its own.
MaxFileSize == 4
MaxChunkSize == 2
\* Multi-hop chain run on its own: number of source symbols, field bits and
\* largest hop count.
MhK == 2
MhBits == 1
MaxHops == 2
\* Largest value of the -field flag tried.
MaxFieldFlag == 17
\* Largest size of a SlidingWindow.
MaxWindowSize == 2

\* Most AddPacket calls on one SlidingWindow.
MaxAdds == 5

\* Packets are told apart by a handle 0 .. MaxPkt.
MaxPkt == 1

\* Largest acknowledgement count handed to SlideWindow (the smallest is -1).
MaxAck == 3

\* Peers taken on their own: length of a coefficient vector (k), number of
\* peers, largest coefficient, and the most arrivals handled in one run.
RunK == 2
RunPeers == 2
RunMaxCoeff == 1
MaxArrivals == 4

\* Sliding-window demo: window of the sender and of the receiver
\* (main.go: windowSize = 8).
windowSize == 2

\* Sliding-window demo: data packets sent in one run (main.go: 64).
totalPackets == 3

\* Sliding-window demo: size of the coefficient table, and the number of
\* values a data byte takes (main.go: fieldSize = 256, the range of a byte).
fieldSize == 2

\* Most latency samples handed to computeLatencyStats.
MaxSamples == 6

\* Largest latency sample, in clock ticks.
MaxLatency == 2

\* Largest operand of GF.Mul, and largest index of mulTable, in the model.
MaxOperand == 17

Peers == 0 .. (numPeers - 1)
Origin == 0

\* time.Time values: the zero value, and a reading of time.Now() (every reading
\* is later than simulate's startTime, and no claim orders two readings).
ZeroTime == "zero"
Now == "now"

VARIABLES
    plain,           \* simulate's plain argument
    lossProb,        \* simulate's lossProb argument (numerator over LossDen)
    srcSyms,         \* encodeFile(): sequence of k chunks
    outChans,        \* Peer.outChans: sequence of peers (their inboxes)
    inbox,           \* Peer.inbox: buffered channel contents
    received,        \* Peer.received
    dupCount,        \* Peer.dupCount
    firstInnovTime,  \* Peer.firstInnovTime: ZeroTime or a reading of the clock
    seenChunks,      \* run's local receivedChunks map (its key set)
    done,            \* Peer.done is closed
    alive,           \* the worker goroutine of the peer is running
    pc,              \* where simulate is
    injected,        \* simulate's injection loop counter
    tally,           \* simulate's results once tallied
    fullDrop,        \* observation: a send hit the default branch of forward
    batch,           \* observation: a basis of the coefficient vectors injected
    gf,              \* the GF object NewGF returned (bits, size, mulTable)
    call,            \* the call in progress of a function run on its own
    ret              \* what that call returned

vars == << plain, lossProb, srcSyms, outChans, inbox, received, dupCount,
           firstInnovTime, seenChunks, done, alive, pc, injected, tally,
           fullDrop, batch, gf, call, ret >>

\* ------------------------------------------------------------ arithmetic
RECURSIVE Pow2(_)
Pow2(n) == IF n = 0 THEN 1 ELSE 2 * Pow2(n - 1)

RECURSIVE Xor(_, _)
\* Bitwise exclusive-or of two naturals (Go's ^ on bytes).
Xor(a, b) ==
    IF a = 0 THEN b
    ELSE IF b = 0 THEN a
    ELSE ((a + b) % 2) + 2 * Xor(a \div 2, b \div 2)

\* Go's byte(x) conversion of a non-negative int.
ToByte(x) == x % 256

\* NewGF: size = 1 << bits, mulTable[i][j] = byte((i * j) % size).
GFSize(bits) == Pow2(bits)

\* A slip: the table filled from a shifted column index.
MulOffByOne(bits, a, b) == ToByte((a * (b + 1)) % GFSize(bits))

\* A slip: the product stored without reduction.
MulNoWrap(bits, a, b) == a * b

\* mulTable[a][b] as NewGF fills it.
Mul(bits, a, b) == ToByte((a * b) % GFSize(bits))

\* The rows and columns of mulTable the model keeps: 0 .. size-1, cut at
\* MaxOperand.
TableIdx(bits) ==
    0 .. (IF GFSize(bits) - 1 < MaxOperand THEN GFSize(bits) - 1 ELSE MaxOperand)

\* NewGF(bits): the GF object with its multiplication table.
NewGF(bits) ==
    [bits |-> bits,
     size |-> GFSize(bits),
     mulTable |-> [i \in TableIdx(bits) |->
                     [j \in TableIdx(bits) |-> Mul(bits, i, j)]]]

\* The field sizes main accepts (-field 8 or 16).
FieldSizes == {8, 16}

\* No function is being run on its own.
NoCall == [fn |-> "none"]

\* ----------------------------------------------------------- mixSymbol
CoeffVals(bits) == { ToByte(c) : c \in 0 .. (GFSize(bits) - 1) }

AllZero(coeff) == \A i \in 1 .. Len(coeff) : coeff[i] = 0

\* A slip: the all-zero vector is let through.
MixCoeffRaw(draws, idx) == draws

\* The coefficient vector of mixSymbol: the k draws of makeCoeff, and when all
\* are zero the draw idx (rand.Intn(k)) set to 1.
MixCoeff(draws, idx) ==
    IF AllZero(draws) THEN [draws EXCEPT ![idx] = 1] ELSE draws

\* A slip: data[j] = ... in place of data[j] ^= ..., the last term winning.
MixByteAssign(bits, src, coeff, j, i) ==
    LET nz == { n \in i .. Len(coeff) : coeff[n] # 0 }
    IN  IF nz = {} THEN 0
        ELSE LET m == CHOOSE x \in nz : \A y \in nz : y <= x
             IN  Mul(bits, src[m][j], coeff[m])

RECURSIVE MixByte(_, _, _, _, _)
\* data[j] after the mix loop has handled src[i..k].
MixByte(bits, src, coeff, j, i) ==
    IF i > Len(coeff) THEN 0
    ELSE Xor(IF coeff[i] # 0 THEN Mul(bits, src[i][j], coeff[i]) ELSE 0,
             MixByte(bits, src, coeff, j, i + 1))

mixSymbol(bits, src, draws, idx) ==
    LET coeff == MixCoeff(draws, idx)
    IN  [Coeff |-> coeff,
         Data  |-> [j \in 1 .. chunkSize |-> MixByte(bits, src, coeff, j, 1)]]

\* Every symbol mixSymbol(src, gf) can return, over the draws of makeCoeff and
\* of rand.Intn(k).
MixSymbols(bits, src) ==
    { mixSymbol(bits, src, draws, idx) :
        draws \in [1 .. k -> CoeffVals(bits)], idx \in 1 .. k }

\* ------------------------------------------------------------- the rank
\* isInnovative builds the real matrix of the coefficient vectors and counts
\* the singular values above 1e-6.  For the small integer matrices of the model
\* every nonzero singular value is far above that threshold, so the count is
\* the exact rank over the rationals, computed here by fraction-free
\* elimination.
PivotRows(rows, col) == { r \in 1 .. Len(rows) : rows[r][col] # 0 }

Eliminate(rows, col, r) ==
    LET piv == rows[r]
        rest == [i \in 1 .. (Len(rows) - 1) |-> IF i < r THEN rows[i] ELSE rows[i + 1]]
    IN  [i \in 1 .. Len(rest) |->
            [c \in 1 .. Len(piv) |-> rest[i][c] * piv[col] - piv[c] * rest[i][col]]]

RECURSIVE RankFrom(_, _)
RankFrom(rows, col) ==
    IF Len(rows) = 0 \/ col > k THEN 0
    ELSE IF PivotRows(rows, col) = {} THEN RankFrom(rows, col + 1)
    ELSE LET r == CHOOSE x \in PivotRows(rows, col) :
                      \A y \in PivotRows(rows, col) : x <= y
         IN  1 + RankFrom(Eliminate(rows, col, r), col + 1)

Rank(rows) == RankFrom(rows, 1)

CoeffRows(syms) == [i \in 1 .. Len(syms) |-> syms[i].Coeff]

\* A slip the oracle could make: the pairwise coefficient-inequality test of
\* isInnovativePair in place of the rank.
isInnovativeByInequality(held, sym) ==
    \A i \in 1 .. Len(held) : held[i].Coeff # sym.Coeff

\* A slip the oracle could make: the rank compared with len(received).
isInnovativeOffByOne(held, sym) ==
    Rank(CoeffRows(Append(held, sym))) >= Len(held)

\* Peer.isInnovative(sym) for a peer holding the symbols held.
isInnovative(held, sym) ==
    Rank(CoeffRows(Append(held, sym))) = Len(held) + 1

\* ------------------------------------------------------------- messages
\* A nil slice is modelled by the empty sequence (chunkSize >= 1, so no chunk
\* is empty).
Nil == << >>

PlainMsg(data) == [Sym |-> [Coeff |-> Nil, Data |-> Nil], DataOnly |-> data]

CodedMsg(sym) == [Sym |-> sym, DataOnly |-> Nil]

\* ------------------------------------------------------------- forward
\* A slip: the comparison of the loss draw inverted.
LossDrawInverted(d, loss) == d > loss

\* A slip: the comparison of the loss draw made non-strict.
LossDrawNonStrict(d, loss) == d <= loss

\* rand.Float64() < lossProb, for the draw d / LossDen.
LossDraw(d, loss) == d < loss

Draws == [1 .. fanout -> 0 .. (LossDen - 1)]

\* select { case ch <- msg: default: }: the send happens when the buffered
\* channel has room and is dropped otherwise; the select is always ready.
HasRoom(box) == Len(box) < InboxCap

\* A slip: a plain blocking send, ch <- msg, ready only when there is room.
SendBlocks(box) == HasRoom(box)

SendReady(box) == TRUE

TrySend(boxes, q, msg) ==
    IF HasRoom(boxes[q]) THEN [boxes EXCEPT ![q] = Append(@, msg)] ELSE boxes

RECURSIVE ForwardFrom(_, _, _, _, _, _)
\* The loop of Peer.forward from position i of outChans on.
ForwardFrom(boxes, chans, msg, loss, draws, i) ==
    IF i > Len(chans) THEN boxes
    ELSE ForwardFrom(IF LossDraw(draws[i], loss) THEN boxes
                     ELSE TrySend(boxes, chans[i], msg),
                     chans, msg, loss, draws, i + 1)

forward(boxes, chans, msg, loss, draws) ==
    ForwardFrom(boxes, chans, msg, loss, draws, 1)

RECURSIVE FullDropFrom(_, _, _, _, _, _)
\* Whether the loop of Peer.forward takes its default branch at a position >= i.
FullDropFrom(boxes, chans, msg, loss, draws, i) ==
    IF i > Len(chans) THEN FALSE
    ELSE IF LossDraw(draws[i], loss)
         THEN FullDropFrom(boxes, chans, msg, loss, draws, i + 1)
         ELSE \/ ~HasRoom(boxes[chans[i]])
              \/ FullDropFrom(TrySend(boxes, chans[i], msg), chans, msg, loss,
                              draws, i + 1)

\* Whether every send of the loop is ready (always, for a select with default).
ForwardReady(boxes, chans, loss, draws) ==
    \A i \in 1 .. Len(chans) :
        LossDraw(draws[i], loss) \/ SendReady(boxes[chans[i]])

\* ------------------------------------------------------- Peer.run pieces
\* A slip: the chunk is never looked up.
SeenBeforeNever(seen, data) == FALSE

\* receivedChunks[key]: whether the chunk was seen before.
SeenBefore(seen, data) == data \in seen

\* A slip: the counter is left alone.
DupIncrNone(n) == n

\* p.dupCount++
DupIncr(n) == n + 1

\* ----------------------------------------------------------------- Init
Chunks == [1 .. chunkSize -> 0 .. MaxSrcByte]

\* encodeFile: k chunks of random bytes.
encodeFile == [1 .. k -> Chunks]

\* The connection loop of simulate: fanout draws of a peer other than p.
Wiring(p) == { s \in [1 .. fanout -> Peers] : \A i \in 1 .. fanout : s[i] # p }

\* A slip: a larger injection volume.
NumInjectMore(isPlain) == IF isPlain THEN k ELSE k * 4

\* The injection loop bound of simulate.
NumInject(isPlain) == IF isPlain THEN k ELSE k * 3

NoTally == [sumInnov |-> 0, sumDup |-> 0, latencies |-> << >>]

Init ==
    /\ plain \in BOOLEAN
    /\ lossProb \in 0 .. LossDen
    /\ srcSyms \in encodeFile
    /\ outChans \in { f \in [Peers -> [1 .. fanout -> Peers]] :
                        \A p \in Peers : f[p] \in Wiring(p) }
    /\ inbox = [p \in Peers |-> << >>]
    /\ received = [p \in Peers |-> << >>]
    /\ dupCount = [p \in Peers |-> 0]
    /\ firstInnovTime = [p \in Peers |-> ZeroTime]
    /\ seenChunks = [p \in Peers |-> {}]
    /\ done = [p \in Peers |-> FALSE]
    /\ alive = [p \in Peers |-> TRUE]
    /\ pc = "inject"
    /\ injected = 0
    /\ tally = NoTally
    /\ fullDrop = FALSE
    /\ batch = << >>
    /\ gf = NewGF(FieldBits)
    /\ call = NoCall
    /\ ret = NoCall

\* -------------------------------------------------------------- actions
\* One iteration of simulate's injection loop: peers[0].forward(msg).
InjectMsg(msg, draws) ==
    /\ pc = "inject"
    /\ injected < NumInject(plain)
    /\ ForwardReady(inbox, outChans[Origin], lossProb, draws)
    /\ inbox' = forward(inbox, outChans[Origin], msg, lossProb, draws)
    /\ fullDrop' = (fullDrop \/ FullDropFrom(inbox, outChans[Origin], msg,
                                              lossProb, draws, 1))
    /\ injected' = injected + 1
    /\ pc' = IF injected + 1 = NumInject(plain) THEN "sleep" ELSE "inject"

InjectPlain ==
    /\ plain
    /\ \E draws \in Draws : InjectMsg(PlainMsg(srcSyms[injected + 1]), draws)
    /\ UNCHANGED << gf, call, ret, plain, lossProb, srcSyms, outChans, received, dupCount,
                    firstInnovTime, seenChunks, done, alive, tally, batch >>

InjectCoded ==
    /\ ~plain
    /\ \E sym \in MixSymbols(FieldBits, srcSyms), draws \in Draws :
          /\ InjectMsg(CodedMsg(sym), draws)
          /\ batch' = IF Rank(Append(batch, sym.Coeff)) = Len(batch) + 1
                      THEN Append(batch, sym.Coeff) ELSE batch
    /\ UNCHANGED << gf, call, ret, plain, lossProb, srcSyms, outChans, received, dupCount,
                    firstInnovTime, seenChunks, done, alive, tally >>

\* Peer.run, plain branch, on the message at the head of the inbox.
RunPlain(p) ==
    /\ plain
    /\ alive[p]
    /\ inbox[p] # << >>
    /\ LET msg == Head(inbox[p])
           rest == [inbox EXCEPT ![p] = Tail(@)]
       IN  IF msg.DataOnly # Nil /\ ~SeenBefore(seenChunks[p], msg.DataOnly)
           THEN /\ seenChunks' = [seenChunks EXCEPT ![p] = @ \cup {msg.DataOnly}]
                /\ received' = [received EXCEPT
                                  ![p] = Append(@, [Coeff |-> Nil, Data |-> msg.DataOnly])]
                /\ \E draws \in Draws :
                      /\ ForwardReady(rest, outChans[p], lossProb, draws)
                      /\ inbox' = forward(rest, outChans[p], msg, lossProb, draws)
                      /\ fullDrop' = (fullDrop \/ FullDropFrom(rest, outChans[p], msg,
                                                                lossProb, draws, 1))
           ELSE /\ inbox' = rest
                /\ UNCHANGED << seenChunks, received, fullDrop >>
    /\ UNCHANGED << gf, call, ret, plain, lossProb, srcSyms, outChans, dupCount, firstInnovTime,
                    done, alive, pc, injected, tally, batch >>

\* A slip: a failed factorization falls through as innovative.
FactorizedFailAccepts(ok, held, sym) == ~ok \/ isInnovative(held, sym)

\* Peer.isInnovative with the outcome ok of svd.Factorize: false when the
\* factorization failed, the rank test otherwise.
Factorized(ok, held, sym) == ok /\ isInnovative(held, sym)

\* Peer.run, coded branch, on the message at the head of the inbox, ok being
\* what svd.Factorize returns in isInnovative.
RunCodedWith(p, ok) ==
    /\ ~plain
    /\ alive[p]
    /\ inbox[p] # << >>
    /\ LET msg == Head(inbox[p])
           rest == [inbox EXCEPT ![p] = Tail(@)]
       IN  IF Factorized(ok, received[p], msg.Sym)
           THEN /\ IF Len(received[p]) = 0
                   THEN firstInnovTime' = [firstInnovTime EXCEPT ![p] = Now]
                   ELSE UNCHANGED firstInnovTime
                /\ received' = [received EXCEPT ![p] = Append(@, msg.Sym)]
                /\ \E draws \in Draws :
                      /\ ForwardReady(rest, outChans[p], lossProb, draws)
                      /\ inbox' = forward(rest, outChans[p], msg, lossProb, draws)
                      /\ fullDrop' = (fullDrop \/ FullDropFrom(rest, outChans[p], msg,
                                                                lossProb, draws, 1))
                /\ UNCHANGED dupCount
           ELSE /\ dupCount' = [dupCount EXCEPT ![p] = DupIncr(@)]
                /\ inbox' = rest
                /\ UNCHANGED << received, firstInnovTime, fullDrop >>
    /\ UNCHANGED << gf, call, ret, plain, lossProb, srcSyms, outChans, seenChunks, done, alive,
                    pc, injected, tally, batch >>

\* The coded branch with the factorization succeeding, as it does for the
\* small integer matrices of the model.
RunCoded(p) == RunCodedWith(p, TRUE)

\* The coded branch when svd.Factorize reports failure.
RunCodedFail(p) == RunCodedWith(p, FALSE)

\* A slip: a worker that selects on its inbox only and never sees the signal.
DoneClosedNever(d, p) == FALSE

\* case <-p.done is ready: the channel has been closed.
DoneClosed(d, p) == d[p]

\* Peer.run, case <-p.done: the worker returns (wg.Done()).
Exit(p) ==
    /\ alive[p]
    /\ DoneClosed(done, p)
    /\ alive' = [alive EXCEPT ![p] = FALSE]
    /\ UNCHANGED << gf, call, ret, plain, lossProb, srcSyms, outChans, inbox, received, dupCount,
                    firstInnovTime, seenChunks, done, pc, injected, tally,
                    fullDrop, batch >>

\* time.Sleep(2 * time.Second) returns.
EndSleep ==
    /\ pc = "sleep"
    /\ pc' = "shutdown"
    /\ UNCHANGED << gf, call, ret, plain, lossProb, srcSyms, outChans, inbox, received, dupCount,
                    firstInnovTime, seenChunks, done, alive, injected, tally,
                    fullDrop, batch >>

\* The shutdown loop of simulate: close(p.done) for every peer.
CloseDone ==
    /\ pc = "shutdown"
    /\ done' = [p \in Peers |-> TRUE]
    /\ pc' = "wait"
    /\ UNCHANGED << gf, call, ret, plain, lossProb, srcSyms, outChans, inbox, received, dupCount,
                    firstInnovTime, seenChunks, alive, injected, tally, fullDrop,
                    batch >>

RECURSIVE SumLen(_, _)
SumLen(f, n) == IF n = 0 THEN 0 ELSE Len(f[n - 1]) + SumLen(f, n - 1)

RECURSIVE SumOf(_, _)
SumOf(f, n) == IF n = 0 THEN 0 ELSE f[n - 1] + SumOf(f, n - 1)

RECURSIVE Latencies(_, _)
\* The latency samples of peers 0 .. n-1, in peer order (startTime is 0).
Latencies(t, n) ==
    IF n = 0 THEN << >>
    ELSE IF t[n - 1] # ZeroTime THEN Append(Latencies(t, n - 1), t[n - 1])
         ELSE Latencies(t, n - 1)

\* A slip: the tally made without waiting for the workers.
WaitReturnsEarly(al) == TRUE

\* wg.Wait() returns: every worker has called wg.Done().
WaitReturns(al) == \A p \in Peers : ~al[p]

\* wg.Wait() returns and simulate tallies the results.
Tally ==
    /\ pc = "wait"
    /\ WaitReturns(alive)
    /\ tally' = [sumInnov |-> SumLen(received, numPeers),
                 sumDup |-> SumOf(dupCount, numPeers),
                 latencies |-> Latencies(firstInnovTime, numPeers)]
    /\ pc' = "done"
    /\ UNCHANGED << gf, call, ret, plain, lossProb, srcSyms, outChans, inbox, received, dupCount,
                    firstInnovTime, seenChunks, done, alive, injected, fullDrop,
                    batch >>

Next ==
    \/ InjectPlain
    \/ InjectCoded
    \/ \E p \in Peers : RunPlain(p)
    \/ \E p \in Peers : RunCoded(p)
    \/ \E p \in Peers : Exit(p)
    \/ EndSleep
    \/ CloseDone
    \/ Tally

Spec == Init /\ [][Next]_vars

\* ------------------------------------------------- quiescent shutdown
\* Every mailbox is empty and the injection loop is over.
Quiet == \A p \in Peers : inbox[p] = << >>

\* time.Sleep returns after the mesh has gone quiet (the two-second window is
\* long enough for the run).
EndSleepQuiet == Quiet /\ EndSleep

Run(p) == RunPlain(p) \/ RunCoded(p)

Inject == InjectPlain \/ InjectCoded

NextQuiet ==
    \/ InjectPlain
    \/ InjectCoded
    \/ \E p \in Peers : RunPlain(p)
    \/ \E p \in Peers : RunCoded(p)
    \/ \E p \in Peers : Exit(p)
    \/ EndSleepQuiet
    \/ CloseDone
    \/ Tally

\* The Go scheduler runs every runnable goroutine: the orchestrator's next step
\* and every worker whose select has a ready case are eventually taken.
Fairness ==
    /\ WF_vars(Inject)
    /\ WF_vars(EndSleepQuiet)
    /\ WF_vars(CloseDone)
    /\ WF_vars(Tally)
    /\ \A p \in Peers : WF_vars(Run(p)) /\ WF_vars(Exit(p))

SpecQuiet == Init /\ [][NextQuiet]_vars /\ Fairness

\* The same scheduling with the sleep returning whenever the timer fires, the
\* mailboxes drained or not.
FairnessAll ==
    /\ WF_vars(Inject)
    /\ WF_vars(EndSleep)
    /\ WF_vars(CloseDone)
    /\ WF_vars(Tally)
    /\ \A p \in Peers : WF_vars(Run(p)) /\ WF_vars(Exit(p))

SpecFair == Init /\ [][Next]_vars /\ FairnessAll

\* The run with svd.Factorize allowed to fail on any arrival.
NextFactor ==
    \/ InjectPlain
    \/ InjectCoded
    \/ \E p \in Peers : RunPlain(p)
    \/ \E p \in Peers : RunCoded(p)
    \/ \E p \in Peers : RunCodedFail(p)
    \/ \E p \in Peers : Exit(p)
    \/ EndSleep
    \/ CloseDone
    \/ Tally

SpecFactor == Init /\ [][NextFactor]_vars

\* ------------------------------------------------ the wiring loop alone
\* simulate up to the start of the workers, the connection loop taken one
\* draw at a time with the out-degree WireFanout.
InitWiring ==
    /\ plain \in BOOLEAN
    /\ lossProb \in 0 .. LossDen
    /\ srcSyms \in encodeFile
    /\ outChans = [p \in Peers |-> << >>]
    /\ inbox = [p \in Peers |-> << >>]
    /\ received = [p \in Peers |-> << >>]
    /\ dupCount = [p \in Peers |-> 0]
    /\ firstInnovTime = [p \in Peers |-> ZeroTime]
    /\ seenChunks = [p \in Peers |-> {}]
    /\ done = [p \in Peers |-> FALSE]
    /\ alive = [p \in Peers |-> FALSE]
    /\ pc = "wire"
    /\ injected = 0
    /\ tally = NoTally
    /\ fullDrop = FALSE
    /\ batch = << >>
    /\ gf = NewGF(FieldBits)
    /\ call = NoCall
    /\ ret = NoCall

\* The peers whose neighbour list is not yet full.
Unwired == { p \in Peers : Len(outChans[p]) < WireFanout }

\* One draw q := peers[rand.Intn(numPeers)] for the first peer still short of
\* neighbours: appended unless q is the peer itself.
WireDraw ==
    /\ pc = "wire"
    /\ Unwired # {}
    /\ LET p == CHOOSE x \in Unwired : \A y \in Unwired : x <= y
       IN  \E q \in Peers :
              outChans' = IF q # p THEN [outChans EXCEPT ![p] = Append(@, q)]
                          ELSE outChans
    /\ UNCHANGED << gf, call, ret, plain, lossProb, srcSyms, inbox, received,
                    dupCount, firstInnovTime, seenChunks, done, alive, pc,
                    injected, tally, fullDrop, batch >>

\* The loop that resets the peers and starts their goroutines.
StartWorkers ==
    /\ pc = "wire"
    /\ Unwired = {}
    /\ alive' = [p \in Peers |-> TRUE]
    /\ pc' = "inject"
    /\ UNCHANGED << gf, call, ret, plain, lossProb, srcSyms, outChans, inbox,
                    received, dupCount, firstInnovTime, seenChunks, done,
                    injected, tally, fullDrop, batch >>

NextWiring ==
    \/ WireDraw
    \/ StartWorkers

\* simulate runs the loop to its end and goes on to start the workers.
SpecWiring ==
    InitWiring /\ [][NextWiring]_vars /\ WF_vars(WireDraw) /\ WF_vars(StartWorkers)

\* ------------------------------------------- functions run on their own
\* No simulation is running: the state of simulate and of the peers is idle.
NoSimulation ==
    /\ plain = FALSE
    /\ lossProb = 0
    /\ srcSyms = << >>
    /\ outChans = [p \in Peers |-> << >>]
    /\ inbox = [p \in Peers |-> << >>]
    /\ received = [p \in Peers |-> << >>]
    /\ dupCount = [p \in Peers |-> 0]
    /\ firstInnovTime = [p \in Peers |-> ZeroTime]
    /\ seenChunks = [p \in Peers |-> {}]
    /\ done = [p \in Peers |-> FALSE]
    /\ alive = [p \in Peers |-> FALSE]
    /\ pc = "call"
    /\ injected = 0
    /\ tally = NoTally
    /\ fullDrop = FALSE
    /\ batch = << >>

simVars == << plain, lossProb, srcSyms, outChans, inbox, received, dupCount,
              firstInnovTime, seenChunks, done, alive, pc, injected, tally,
              fullDrop, batch >>

\* mixSymbol(src, gf) on MixK source symbols: the arguments and the draws of
\* makeCoeff and rand.Intn the call will make.
MixCalls ==
    [fn : {"mixSymbol"},
     src : [1 .. MixK -> [1 .. chunkSize -> 0 .. MixMaxByte]],
     draws : [1 .. MixK -> CoeffVals(FieldBits)],
     idx : 1 .. MixK]

InitMix ==
    /\ NoSimulation
    /\ gf = NewGF(FieldBits)
    /\ call \in MixCalls
    /\ ret = NoCall

\* The call returns its symbol; src is what the caller's slice holds afterwards
\* (mixSymbol only reads it).
CallMixSymbol ==
    /\ call.fn = "mixSymbol"
    /\ ret.fn = "none"
    /\ ret' = [fn |-> "mixSymbol",
               sym |-> mixSymbol(gf.bits, call.src, call.draws, call.idx),
               src |-> call.src]
    /\ UNCHANGED << gf, call, simVars >>

SpecMix == InitMix /\ [][CallMixSymbol]_vars

\* NewGF, GF.Mul and makeCoeff on their own, for the field sizes main accepts.
NoGF == [bits |-> 0, size |-> 0, mulTable |-> << >>]

InitGF ==
    /\ NoSimulation
    /\ gf = NoGF
    /\ call \in [fn : {"NewGF"}, bits : FieldSizes]
    /\ ret = NoCall

CallNewGF ==
    /\ call.fn = "NewGF"
    /\ gf = NoGF
    /\ gf' = NewGF(call.bits)
    /\ ret' = [fn |-> "NewGF"]
    /\ UNCHANGED << call, simVars >>

\* gf.Mul(a, b): the table entry.
CallMul ==
    /\ gf # NoGF
    /\ \E a \in TableIdx(gf.bits), b \in TableIdx(gf.bits) :
          /\ call' = [fn |-> "Mul", a |-> a, b |-> b]
          /\ ret' = [fn |-> "Mul", val |-> gf.mulTable[a][b]]
    /\ UNCHANGED << gf, simVars >>

\* Values rand.Intn(size) can return, a sample around the byte boundary.
RandIntn(size) == { r \in {0, 1, 255, 256, size - 1} : r < size }

\* makeCoeff(gf) = byte(rand.Intn(gf.size)), r being the value drawn.
CallMakeCoeff ==
    /\ gf # NoGF
    /\ \E r \in RandIntn(gf.size) :
          /\ call' = [fn |-> "makeCoeff", r |-> r]
          /\ ret' = [fn |-> "makeCoeff", val |-> ToByte(r)]
    /\ UNCHANGED << gf, simVars >>

NextGF ==
    \/ CallNewGF
    \/ CallMul
    \/ CallMakeCoeff

SpecGF == InitGF /\ [][NextGF]_vars

\* encodeFile on its own, for a build with the constants fileSize and chunkSize
\* set to fsize and csize: k = fileSize / chunkSize (integer division), and
\* symbols[i].Data = src[i*chunkSize : (i+1)*chunkSize].
EncodeSplit(src, csize) ==
    [i \in 1 .. (Len(src) \div csize) |->
        SubSeq(src, (i - 1) * csize + 1, i * csize)]

\* The buffers crand.Read can fill, of length n.
Buffers(n) == [1 .. n -> 0 .. MaxSrcByte]

EncodeCalls ==
    { [fn |-> "encodeFile", chunk |-> c, src |-> b] :
        c \in 1 .. MaxChunkSize,
        b \in UNION { Buffers(n) : n \in 0 .. MaxFileSize } }

InitEncode ==
    /\ NoSimulation
    /\ gf = NoGF
    /\ call \in EncodeCalls
    /\ ret = NoCall

\* encodeFile returns its symbols; it has no error result.
CallEncodeFile ==
    /\ call.fn = "encodeFile"
    /\ ret.fn = "none"
    /\ ret' = [fn |-> "encodeFile", err |-> FALSE,
               symbols |-> EncodeSplit(call.src, call.chunk)]
    /\ UNCHANGED << gf, call, simVars >>

SpecEncode == InitEncode /\ [][CallEncodeFile]_vars

\* ------------------------------------------------------------------ main
\* The flags main parses.
MainCalls ==
    [fn : {"main"},
     fieldBits : 0 .. MaxFieldFlag,
     multihop : BOOLEAN,
     compare : BOOLEAN,
     codeType : {"rlnc", "rs", "plain", "other"}]

InitMain ==
    /\ NoSimulation
    /\ gf = NoGF
    /\ call \in MainCalls
    /\ ret = NoCall

\* A slip: the check of the field size left out.
FieldOkAny(bits) == TRUE

\* The negation of main's test *fieldBits != 8 && *fieldBits != 16.
FieldOk(bits) == ~(bits # 8 /\ bits # 16)

\* main's check of the field size: on failure it prints the error and returns.
MainCheckField ==
    /\ call.fn = "main"
    /\ ret.fn = "none"
    /\ ret' = [fn |-> "main",
               stage |-> IF FieldOk(call.fieldBits) THEN "run" ELSE "exit",
               err |-> ~FieldOk(call.fieldBits),
               ran |-> << >>]
    /\ UNCHANGED << gf, call, simVars >>

\* -multihop: simulateMultihopRLNC (which builds the field) and
\* simulateMultihopRS, then return.
MainMultihop ==
    /\ ret.fn = "main" /\ ret.stage = "run"
    /\ call.multihop
    /\ gf' = NewGF(call.fieldBits)
    /\ ret' = [ret EXCEPT !.stage = "exit", !.ran = << "multihopRLNC", "multihopRS" >>]
    /\ UNCHANGED << call, simVars >>

\* -compare: simulate(false), simulateRS, simulate(true), then return.
MainCompare ==
    /\ ret.fn = "main" /\ ret.stage = "run"
    /\ ~call.multihop /\ call.compare
    /\ gf' = NewGF(call.fieldBits)
    /\ ret' = [ret EXCEPT !.stage = "exit", !.ran = << "rlnc", "rs", "plain" >>]
    /\ UNCHANGED << call, simVars >>

\* The single scheme -code names; an unknown name runs nothing.
MainSingle ==
    /\ ret.fn = "main" /\ ret.stage = "run"
    /\ ~call.multihop /\ ~call.compare
    /\ gf' = IF call.codeType \in {"rlnc", "plain"} THEN NewGF(call.fieldBits) ELSE gf
    /\ ret' = [ret EXCEPT !.stage = "exit",
                          !.ran = IF call.codeType = "other" THEN << >>
                                  ELSE << call.codeType >>]
    /\ UNCHANGED << call, simVars >>

NextMain ==
    \/ MainCheckField
    \/ MainMultihop
    \/ MainCompare
    \/ MainSingle

SpecMain == InitMain /\ [][NextMain]_vars

\* ------------------------------------------------------------ simulateRS
\* simulateRS(lossProb): n = 2k shards, the k data blocks followed by the k
\* parity shards the reedsolomon encoder fills (any bytes, for the model).
\* i and p are the loop indices; tried and offers count, per peer, the shards
\* the loop has reached it with and those that passed the loss draw.
RSCalls ==
    [fn : {"simulateRS"},
     lossProb : 0 .. LossDen,
     shards : [1 .. (2 * k) -> Chunks],
     i : {1},
     p : {0},
     tried : {[q \in Peers |-> 0]},
     offers : {[q \in Peers |-> 0]}]

InitRS ==
    /\ NoSimulation
    /\ gf = NoGF
    /\ call \in RSCalls
    /\ ret = NoCall

\* The loop indices after the body for (i, p).
RSAdvance(c) ==
    IF c.p + 1 < numPeers THEN [c EXCEPT !.p = c.p + 1]
    ELSE [c EXCEPT !.p = 0, !.i = c.i + 1]

\* One iteration of the inner loop: shard i reaches peer p unless the loss
\* draw drops it; a new shard is recorded (and stamped when it is the peer's
\* first), a repeated one counted.
RSOffer ==
    /\ call.fn = "simulateRS"
    /\ call.i <= 2 * k
    /\ LET p == call.p
           key == call.shards[call.i]
           c == RSAdvance([call EXCEPT !.tried[p] = @ + 1])
       IN  \E d \in 0 .. (LossDen - 1) :
              IF LossDraw(d, call.lossProb)
              THEN /\ call' = c
                   /\ UNCHANGED << seenChunks, firstInnovTime, dupCount >>
              ELSE /\ call' = [c EXCEPT !.offers[p] = @ + 1]
                   /\ IF ~SeenBefore(seenChunks[p], key)
                      THEN /\ seenChunks' = [seenChunks EXCEPT ![p] = @ \cup {key}]
                           /\ firstInnovTime' =
                                 IF Cardinality(seenChunks[p] \cup {key}) = 1
                                 THEN [firstInnovTime EXCEPT ![p] = Now]
                                 ELSE firstInnovTime
                           /\ UNCHANGED dupCount
                      ELSE /\ dupCount' = [dupCount EXCEPT ![p] = DupIncr(@)]
                           /\ UNCHANGED << seenChunks, firstInnovTime >>
    /\ UNCHANGED << gf, ret, plain, lossProb, srcSyms, outChans, inbox, received,
                    done, alive, pc, injected, tally, fullDrop, batch >>

RECURSIVE SumCard(_, _)
SumCard(f, n) == IF n = 0 THEN 0 ELSE Cardinality(f[n - 1]) + SumCard(f, n - 1)

\* The tally of simulateRS.
RSTally ==
    /\ call.fn = "simulateRS"
    /\ call.i = 2 * k + 1
    /\ ret.fn = "none"
    /\ tally' = [sumInnov |-> SumCard(seenChunks, numPeers),
                 sumDup |-> SumOf(dupCount, numPeers),
                 latencies |-> Latencies(firstInnovTime, numPeers)]
    /\ ret' = [fn |-> "simulateRS"]
    /\ UNCHANGED << gf, call, plain, lossProb, srcSyms, outChans, inbox, received,
                    dupCount, firstInnovTime, seenChunks, done, alive, pc,
                    injected, fullDrop, batch >>

NextRS ==
    \/ RSOffer
    \/ RSTally

SpecRS == InitRS /\ [][NextRS]_vars

\* --------------------------------------------------- simulateMultihopRLNC
\* Every symbol mixSymbol(src, gf) can return when k is n: the coefficient
\* vector has length n and only src[1 .. n] are read.
MixSymbolsOf(bits, src, n) ==
    { mixSymbol(bits, src, draws, idx) :
        draws \in [1 .. n -> CoeffVals(bits)], idx \in 1 .. n }

\* The payloads of a slice of symbols.
Datas(syms) == [i \in 1 .. Len(syms) |-> syms[i].Data]

MhCalls ==
    [fn : {"simulateMultihopRLNC"},
     lossProb : 0 .. LossDen,
     hops : 0 .. MaxHops,
     src : [1 .. MhK -> Chunks],
     h : {0},
     stage : {"gen"},
     curr : {<< >>},
     next : {<< >>},
     halted : {FALSE}]

InitMh ==
    /\ NoSimulation
    /\ gf = NewGF(MhBits)
    /\ call \in MhCalls
    /\ ret = NoCall

\* curr: 2k mixes of the source symbols.
MhGenerate ==
    /\ call.fn = "simulateMultihopRLNC"
    /\ call.stage = "gen"
    /\ \E c \in [1 .. (2 * MhK) -> MixSymbolsOf(gf.bits, call.src, MhK)] :
          call' = [call EXCEPT !.curr = c, !.stage = "hop"]
    /\ UNCHANGED << gf, ret, simVars >>

RECURSIVE Survivors(_, _, _, _)
\* The symbols of curr[i ..] whose draw is not below the loss probability.
Survivors(curr, draws, loss, i) ==
    IF i > Len(curr) THEN << >>
    ELSE IF ~LossDraw(draws[i], loss)
         THEN << curr[i] >> \o Survivors(curr, draws, loss, i + 1)
         ELSE Survivors(curr, draws, loss, i + 1)

\* The loss loop of hop h: next is what survives of curr.
MhLoss ==
    /\ call.fn = "simulateMultihopRLNC"
    /\ call.stage = "hop"
    /\ call.h < call.hops
    /\ \E draws \in [1 .. Len(call.curr) -> 0 .. (LossDen - 1)] :
          call' = [call EXCEPT !.next = Survivors(call.curr, draws, call.lossProb, 1),
                               !.stage = "lost"]
    /\ UNCHANGED << gf, ret, simVars >>

\* A slip: the threshold compared with <=.
TooFewOffByOne(n) == n <= MhK

\* len(next) < k
TooFew(n) == n < MhK

\* Not enough to recode: curr = next and break.
MhHalt ==
    /\ call.fn = "simulateMultihopRLNC"
    /\ call.stage = "lost"
    /\ TooFew(Len(call.next))
    /\ call' = [call EXCEPT !.curr = call.next, !.halted = TRUE, !.stage = "count"]
    /\ UNCHANGED << gf, ret, simVars >>

\* Recoding: curr becomes 2k results of mixSymbol(next, gf).
MhRecode ==
    /\ call.fn = "simulateMultihopRLNC"
    /\ call.stage = "lost"
    /\ ~TooFew(Len(call.next))
    /\ \E c \in [1 .. (2 * MhK) -> MixSymbolsOf(gf.bits, Datas(call.next), MhK)] :
          call' = [call EXCEPT !.curr = c, !.h = call.h + 1, !.stage = "hop"]
    /\ UNCHANGED << gf, ret, simVars >>

\* The hop loop ends with h = hops.
MhEndHops ==
    /\ call.fn = "simulateMultihopRLNC"
    /\ call.stage = "hop"
    /\ call.h = call.hops
    /\ call' = [call EXCEPT !.stage = "count"]
    /\ UNCHANGED << gf, ret, simVars >>

\* A slip: two symbols told apart only when every coefficient differs.
isInnovativePairAll(a, b) ==
    \A i \in 1 .. Len(a.Coeff) : a.Coeff[i] # b.Coeff[i]

isInnovativePair(a, b) ==
    \E i \in 1 .. Len(a.Coeff) : a.Coeff[i] # b.Coeff[i]

RECURSIVE CountFrom(_, _, _)
\* The destination loop from curr[i] on, kept being the symbols retained so far.
CountFrom(curr, kept, i) ==
    IF i > Len(curr) THEN kept
    ELSE CountFrom(curr,
                   IF \A n \in 1 .. Len(kept) : isInnovativePair(kept[n], curr[i])
                   THEN Append(kept, curr[i]) ELSE kept,
                   i + 1)

\* Count innovative at destination and return.
MhCount ==
    /\ call.fn = "simulateMultihopRLNC"
    /\ call.stage = "count"
    /\ call' = [call EXCEPT !.stage = "done"]
    /\ ret' = [fn |-> "simulateMultihopRLNC",
               count |-> Len(CountFrom(call.curr, << >>, 1))]
    /\ UNCHANGED << gf, simVars >>

NextMh ==
    \/ MhGenerate
    \/ MhLoss
    \/ MhHalt
    \/ MhRecode
    \/ MhEndHops
    \/ MhCount

SpecMh == InitMh /\ [][NextMh]_vars

\* ----------------------------------------------------- simulateMultihopRS
\* The 2k shards: the k data blocks and the k parity shards the reedsolomon
\* encoder fills (any bytes, for the model).
MhRSCalls ==
    [fn : {"simulateMultihopRS"},
     lossProb : 0 .. LossDen,
     hops : 0 .. MaxHops,
     shards : [1 .. (2 * MhK) -> [1 .. chunkSize -> 0 .. MixMaxByte]],
     h : {0},
     curr : {<< >>}]

InitMhRS ==
    /\ NoSimulation
    /\ gf = NoGF
    /\ \E c \in MhRSCalls : call = [c EXCEPT !.curr = c.shards]
    /\ ret = NoCall

\* A slip: the survival test inverted.
SurvivesRSInverted(d, loss) == d < loss

\* rand.Float64() >= lossProb
SurvivesRS(d, loss) == d >= loss

RECURSIVE KeptShards(_, _, _, _)
\* The loss loop of a hop from curr[i] on.
KeptShards(curr, draws, loss, i) ==
    IF i > Len(curr) THEN << >>
    ELSE IF SurvivesRS(draws[i], loss)
         THEN << curr[i] >> \o KeptShards(curr, draws, loss, i + 1)
         ELSE KeptShards(curr, draws, loss, i + 1)

\* One hop: curr = next.
MhRSHop ==
    /\ call.fn = "simulateMultihopRS"
    /\ ret.fn = "none"
    /\ call.h < call.hops
    /\ \E draws \in [1 .. Len(call.curr) -> 0 .. (LossDen - 1)] :
          call' = [call EXCEPT !.curr = KeptShards(call.curr, draws, call.lossProb, 1),
                               !.h = call.h + 1]
    /\ UNCHANGED << gf, ret, simVars >>

\* Count unique blocks at destination and return.
MhRSCount ==
    /\ call.fn = "simulateMultihopRS"
    /\ ret.fn = "none"
    /\ call.h = call.hops
    /\ ret' = [fn |-> "simulateMultihopRS",
               count |-> Cardinality({ call.curr[i] : i \in 1 .. Len(call.curr) })]
    /\ UNCHANGED << gf, call, simVars >>

NextMhRS ==
    \/ MhRSHop
    \/ MhRSCount

SpecMhRS == InitMhRS /\ [][NextMhRS]_vars

\* ---------------------------------------------------- computeLatencyStats
RECURSIVE InsertSorted(_, _)
\* x put in front of the first element of the sorted s that is not below it.
InsertSorted(x, s) ==
    IF s = << >> THEN << x >>
    ELSE IF ~(Head(s) < x) THEN << x >> \o s
         ELSE << Head(s) >> \o InsertSorted(x, Tail(s))

\* A slip: the samples left in arrival order.
SortSliceNone(s) == s

RECURSIVE SortSlice(_)
\* sort.Slice with less = latencies[i] < latencies[j]
SortSlice(s) ==
    IF s = << >> THEN << >>
    ELSE InsertSorted(Head(s), SortSlice(Tail(s)))

\* Samples of every length up to MaxSamples; input keeps what the caller
\* passed, latencies is the slice the function works on.
StatsCalls ==
    UNION { [fn : {"computeLatencyStats"},
             input : {l},
             latencies : {l}] :
            l \in UNION { [1 .. n -> 0 .. MaxLatency] : n \in 0 .. MaxSamples } }

InitStats ==
    /\ NoSimulation
    /\ gf = NoGF
    /\ call \in StatsCalls
    /\ ret = NoCall

\* if len(latencies) == 0 { return 0, 0 }
StatsEmpty ==
    /\ call.fn = "computeLatencyStats"
    /\ ret.fn = "none"
    /\ Len(call.latencies) = 0
    /\ ret' = [fn |-> "computeLatencyStats", p50 |-> 0, p95 |-> 0, panic |-> FALSE]
    /\ UNCHANGED << gf, call, simVars >>

\* latencies[i] of a slice of n elements: a run-time panic when i is out of
\* range (Go indexes from 0).
IndexOK(s, i) == i >= 0 /\ i < Len(s)

At(s, i) == IF IndexOK(s, i) THEN s[i + 1] ELSE 0

\* The sort in place and the two index reads.
StatsCompute ==
    /\ call.fn = "computeLatencyStats"
    /\ ret.fn = "none"
    /\ Len(call.latencies) # 0
    /\ LET sorted == SortSlice(call.latencies)
           n == Len(sorted)
           i50 == (n * 50) \div 100
           i95 == (n * 95) \div 100
       IN /\ call' = [call EXCEPT !.latencies = sorted]
          /\ ret' = [fn |-> "computeLatencyStats",
                     p50 |-> At(sorted, i50),
                     p95 |-> At(sorted, i95),
                     panic |-> ~(IndexOK(sorted, i50) /\ IndexOK(sorted, i95))]
    /\ UNCHANGED << gf, simVars >>

NextStats ==
    \/ StatsEmpty
    \/ StatsCompute

SpecStats == InitStats /\ [][NextStats]_vars

\* ---------------------------------------------------------- SlidingWindow
\* s[from:] of Go, from counted from 0.
SliceFrom(s, from) == SubSeq(s, from + 1, Len(s))

NewSlidingWindow(size) == [packets |-> << >>, base |-> 0, size |-> size]

\* A slip: the overflow eviction made without advancing base.
AddPacketNoBase(sw, pkt) ==
    LET appended == Append(sw.packets, pkt)
    IN [sw EXCEPT !.packets = IF Len(appended) > sw.size * 2
                              THEN SliceFrom(appended, 1) ELSE appended]

AddPacket(sw, pkt) ==
    LET appended == Append(sw.packets, pkt)
    IN IF Len(appended) > sw.size * 2
       THEN [sw EXCEPT !.packets = SliceFrom(appended, 1), !.base = sw.base + 1]
       ELSE [sw EXCEPT !.packets = appended]

\* A slip: the whole buffer handed out.
GetWindowPacketsAll(sw) == sw.packets

GetWindowPackets(sw) ==
    LET start == Len(sw.packets) - sw.size
    IN SliceFrom(sw.packets, IF start < 0 THEN 0 ELSE start)

\* A slip: an acknowledgement of the whole buffer refused.
SlideWindowStrict(sw, ackCount) ==
    IF ackCount > 0 /\ Len(sw.packets) > ackCount
    THEN [sw EXCEPT !.packets = SliceFrom(sw.packets, ackCount),
                    !.base = sw.base + ackCount]
    ELSE sw

SlideWindow(sw, ackCount) ==
    IF ackCount > 0 /\ Len(sw.packets) >= ackCount
    THEN [sw EXCEPT !.packets = SliceFrom(sw.packets, ackCount),
                    !.base = sw.base + ackCount]
    ELSE sw

\* One window of any size; added is the history of the AddPacket arguments.
InitWindow ==
    /\ NoSimulation
    /\ gf = NoGF
    /\ \E size \in 0 .. MaxWindowSize :
          call = [fn |-> "SlidingWindow", sw |-> NewSlidingWindow(size), added |-> << >>]
    /\ ret = NoCall

WinAdd ==
    /\ call.fn = "SlidingWindow"
    /\ Len(call.added) < MaxAdds
    /\ \E pkt \in 0 .. MaxPkt :
          /\ call' = [call EXCEPT !.sw = AddPacket(call.sw, pkt),
                                  !.added = Append(call.added, pkt)]
          /\ ret' = [fn |-> "AddPacket", pkt |-> pkt]
    /\ UNCHANGED << gf, simVars >>

WinGet ==
    /\ call.fn = "SlidingWindow"
    /\ ret' = [fn |-> "GetWindowPackets", pkts |-> GetWindowPackets(call.sw)]
    /\ UNCHANGED << gf, call, simVars >>

\* before is len(sw.packets) at the call.
WinSlide ==
    /\ call.fn = "SlidingWindow"
    /\ \E ackCount \in (0 - 1) .. MaxAck :
          /\ call' = [call EXCEPT !.sw = SlideWindow(call.sw, ackCount)]
          /\ ret' = [fn |-> "SlideWindow", ackCount |-> ackCount,
                     before |-> Len(call.sw.packets)]
    /\ UNCHANGED << gf, simVars >>

NextWindow ==
    \/ WinAdd
    \/ WinGet
    \/ WinSlide

SpecWindow == InitWindow /\ [][NextWindow]_vars

\* ------------------------------------------- sliding-window sender, receiver
\* A nil *Packet.
NilPacket == [nil |-> TRUE]

\* mulTable[a][b] as the sliding-window NewGF fills it.
SwMul(a, b) == ToByte((a * b) % fieldSize)

NewSender(size, rate) ==
    [window |-> NewSlidingWindow(size), codingRate |-> rate, packetID |-> 0]

\* data is what crand.Read put in the buffer, now the reading of the clock.
CreateDataPacket(s, data, now) ==
    LET pkt == [ID |-> s.packetID, Data |-> data, Coeffs |-> Nil,
                IsCoded |-> FALSE, Timestamp |-> now]
    IN [s |-> [s EXCEPT !.packetID = s.packetID + 1,
                        !.window = AddPacket(s.window, pkt)],
        pkt |-> pkt]

RECURSIVE CodedByte(_, _, _, _)
\* codedData[j] after the first n window packets have been folded in.
CodedByte(wp, coeffs, j, n) ==
    IF n = 0 THEN 0
    ELSE LET prev == CodedByte(wp, coeffs, j, n - 1)
         IN IF coeffs[n] # 0
            THEN Xor(prev, SwMul(wp[n].Data[j], coeffs[n]))
            ELSE prev

\* A slip: the combination taken over the whole buffer.
CreateCodedPacketWholeBuffer(s, draws, now) ==
    LET wp == s.window.packets
        coeffs == [i \in 1 .. Len(wp) |-> ToByte(draws[((i - 1) % Len(draws)) + 1])]
    IN IF Len(GetWindowPackets(s.window)) = 0 THEN NilPacket
       ELSE [ID |-> s.packetID,
             Data |-> [j \in 1 .. chunkSize |-> CodedByte(wp, coeffs, j, Len(wp))],
             Coeffs |-> coeffs, IsCoded |-> TRUE, Timestamp |-> now]

\* draws are the values of rand.Intn(fieldSize), one per window packet.
CreateCodedPacket(s, draws, now) ==
    LET wp == GetWindowPackets(s.window)
        coeffs == [i \in 1 .. Len(wp) |-> ToByte(draws[i])]
    IN IF Len(wp) = 0 THEN NilPacket
       ELSE [ID |-> s.packetID,
             Data |-> [j \in 1 .. chunkSize |-> CodedByte(wp, coeffs, j, Len(wp))],
             Coeffs |-> coeffs, IsCoded |-> TRUE, Timestamp |-> now]

\* An empty map[int]*Packet.
NoPackets == [id \in {} |-> NilPacket]

\* m[key] = v
MapPut(m, key, v) ==
    [x \in (DOMAIN m) \cup {key} |-> IF x = key THEN v ELSE m[x]]

NewReceiver(size) ==
    [window |-> NewSlidingWindow(size), decoded |-> NoPackets, delays |-> << >>]

RECURSIVE InnovativeFrom(_, _, _)
\* The loop of findInnovativePackets from packets[i] on.
InnovativeFrom(packets, seen, i) ==
    IF i > Len(packets) THEN << >>
    ELSE IF packets[i].Data \in seen
         THEN InnovativeFrom(packets, seen, i + 1)
         ELSE << packets[i] >>
              \o InnovativeFrom(packets, seen \cup {packets[i].Data}, i + 1)

findInnovativePackets(packets) == InnovativeFrom(packets, {}, 1)

\* r.decoded[pkt.ID] = pkt; r.delays = append(r.delays, time.Since(pkt.Timestamp))
RecordDecoded(r, pkt, now) ==
    [r EXCEPT !.decoded = MapPut(r.decoded, pkt.ID, pkt),
              !.delays = Append(r.delays, now - pkt.Timestamp)]

RECURSIVE DecodeFromAll(_, _, _, _)
\* A slip: coded packets recorded as decoded like data packets.
DecodeFromAll(r, innovative, now, i) ==
    IF i > Len(innovative) THEN r
    ELSE DecodeFromAll(RecordDecoded(r, innovative[i], now), innovative, now, i + 1)

RECURSIVE DecodeFrom(_, _, _, _)
\* The loop of tryDecode over the innovative packets from innovative[i] on.
DecodeFrom(r, innovative, now, i) ==
    IF i > Len(innovative) THEN r
    ELSE IF ~innovative[i].IsCoded
         THEN DecodeFrom(RecordDecoded(r, innovative[i], now), innovative, now, i + 1)
         ELSE DecodeFrom(r, innovative, now, i + 1)

tryDecode(r, now) ==
    LET wp == GetWindowPackets(r.window)
        innovative == findInnovativePackets(wp)
    IN IF Len(wp) < 2 THEN [r |-> r, ok |-> FALSE]
       ELSE IF Len(innovative) >= Cardinality(DOMAIN r.decoded)
            THEN [r |-> DecodeFrom(r, innovative, now, 1), ok |-> TRUE]
            ELSE [r |-> r, ok |-> FALSE]

\* A slip: a data packet put through tryDecode like a coded one.
ReceivePacketViaDecode(r, pkt, now) ==
    tryDecode([r EXCEPT !.window = AddPacket(r.window, pkt)], now)

ReceivePacket(r, pkt, now) ==
    LET added == [r EXCEPT !.window = AddPacket(r.window, pkt)]
    IN IF pkt.IsCoded
       THEN tryDecode(added, now)
       ELSE [r |-> RecordDecoded(added, pkt, now), ok |-> TRUE]

RECURSIVE SumSeq(_, _)
SumSeq(s, n) == IF n = 0 THEN 0 ELSE s[n] + SumSeq(s, n - 1)

\* GetStats: the decoded count and the average delay, kept as the exact
\* quotient sum / n; the delays are sorted in place.
GetStats(r) ==
    IF Len(r.delays) = 0
    THEN [r |-> r, received |-> Cardinality(DOMAIN r.decoded), sum |-> 0, n |-> 1]
    ELSE [r |-> [r EXCEPT !.delays = SortSlice(r.delays)],
          received |-> Cardinality(DOMAIN r.decoded),
          sum |-> SumSeq(r.delays, Len(r.delays)),
          n |-> Len(r.delays)]

\* ------------------------------------------------ simulateSlidingWindowRLNC
\* rand.Float64() >= lossProb
Delivered(d, loss) == d >= loss

\* The run before its first iteration; delivered is the history of the data
\* packets handed to the receiver. The clock reads i during iteration i.
InitSW ==
    /\ NoSimulation
    /\ gf = NoGF
    /\ \E loss \in 0 .. LossDen, rate \in 0 .. LossDen :
          call = [fn |-> "simulateSlidingWindowRLNC",
                  lossProb |-> loss,
                  i |-> 0,
                  at |-> "data",
                  sender |-> NewSender(windowSize, rate),
                  receiver |-> NewReceiver(windowSize),
                  delivered |-> {}]
    /\ ret = NoCall

\* dataPkt := sender.CreateDataPacket(), handed to the receiver unless lost.
SwSendData ==
    /\ call.fn = "simulateSlidingWindowRLNC"
    /\ call.at = "data"
    /\ call.i < totalPackets
    /\ \E data \in [1 .. chunkSize -> 0 .. (fieldSize - 1)], d \in 0 .. (LossDen - 1) :
          LET made == CreateDataPacket(call.sender, data, call.i)
              got == ReceivePacket(call.receiver, made.pkt, call.i)
          IN IF Delivered(d, call.lossProb)
             THEN /\ call' = [call EXCEPT !.sender = made.s,
                                          !.receiver = got.r,
                                          !.delivered = call.delivered \cup {made.pkt},
                                          !.at = "coded"]
                  /\ ret' = [fn |-> "ReceivePacket", pkt |-> made.pkt, ok |-> got.ok]
             ELSE /\ call' = [call EXCEPT !.sender = made.s, !.at = "coded"]
                  /\ ret' = [fn |-> "lost", pkt |-> made.pkt]
    /\ UNCHANGED << gf, simVars >>

\* A coded packet with probability codingRate, handed over unless nil or lost.
SwSendCoded ==
    /\ call.fn = "simulateSlidingWindowRLNC"
    /\ call.at = "coded"
    /\ \E c \in 0 .. (LossDen - 1), d \in 0 .. (LossDen - 1),
          draws \in [1 .. Len(GetWindowPackets(call.sender.window)) -> 0 .. (fieldSize - 1)] :
          LET codedPkt == CreateCodedPacket(call.sender, draws, call.i)
          IN IF c < call.sender.codingRate
             THEN IF codedPkt # NilPacket /\ Delivered(d, call.lossProb)
                  THEN LET got == ReceivePacket(call.receiver, codedPkt, call.i)
                       IN /\ call' = [call EXCEPT !.receiver = got.r, !.at = "ack"]
                          /\ ret' = [fn |-> "ReceivePacket", pkt |-> codedPkt, ok |-> got.ok]
                  ELSE /\ call' = [call EXCEPT !.at = "ack"]
                       /\ ret' = [fn |-> "lost", pkt |-> codedPkt]
             ELSE /\ call' = [call EXCEPT !.at = "ack"]
                  /\ ret' = [fn |-> "uncoded"]
    /\ UNCHANGED << gf, simVars >>

\* The acknowledgement every windowSize iterations, and i++.
SwAck ==
    /\ call.fn = "simulateSlidingWindowRLNC"
    /\ call.at = "ack"
    /\ call' = [call EXCEPT
                  !.sender.window =
                      IF call.i % windowSize = 0 /\ call.i > 0
                      THEN SlideWindow(call.sender.window, windowSize \div 2)
                      ELSE call.sender.window,
                  !.i = call.i + 1,
                  !.at = "data"]
    /\ UNCHANGED << gf, ret, simVars >>

\* return receiver.GetStats()
SwReturn ==
    /\ call.fn = "simulateSlidingWindowRLNC"
    /\ call.at = "data"
    /\ call.i = totalPackets
    /\ LET st == GetStats(call.receiver)
       IN /\ call' = [call EXCEPT !.receiver = st.r, !.at = "returned"]
          /\ ret' = [fn |-> "simulateSlidingWindowRLNC",
                     received |-> st.received, sum |-> st.sum, n |-> st.n]
    /\ UNCHANGED << gf, simVars >>

NextSW ==
    \/ SwSendData
    \/ SwSendCoded
    \/ SwAck
    \/ SwReturn

SpecSW == InitSW /\ [][NextSW]_vars

\* ------------------------------------------------------ the Sender alone
\* A sender of any window size, its methods called in any order; the clock
\* reads the number of data packets created.
InitSender ==
    /\ NoSimulation
    /\ gf = NoGF
    /\ \E size \in 0 .. MaxWindowSize :
          call = [fn |-> "Sender", sender |-> NewSender(size, 0)]
    /\ ret = NoCall

SndData ==
    /\ call.fn = "Sender"
    /\ call.sender.packetID < MaxAdds
    /\ \E data \in [1 .. chunkSize -> 0 .. (fieldSize - 1)] :
          LET made == CreateDataPacket(call.sender, data, call.sender.packetID)
          IN /\ call' = [call EXCEPT !.sender = made.s]
             /\ ret' = [fn |-> "CreateDataPacket", pkt |-> made.pkt]
    /\ UNCHANGED << gf, simVars >>

SndCoded ==
    /\ call.fn = "Sender"
    /\ \E draws \in [1 .. Len(GetWindowPackets(call.sender.window)) -> 0 .. (fieldSize - 1)] :
          ret' = [fn |-> "CreateCodedPacket",
                  pkt |-> CreateCodedPacket(call.sender, draws, call.sender.packetID)]
    /\ UNCHANGED << gf, call, simVars >>

SndSlide ==
    /\ call.fn = "Sender"
    /\ \E ackCount \in (0 - 1) .. MaxAck :
          /\ call' = [call EXCEPT !.sender.window = SlideWindow(call.sender.window, ackCount)]
          /\ ret' = [fn |-> "SlideWindow", ackCount |-> ackCount]
    /\ UNCHANGED << gf, simVars >>

NextSender ==
    \/ SndData
    \/ SndCoded
    \/ SndSlide

SpecSender == InitSender /\ [][NextSender]_vars

\* ------------------------------------------- the coded branch of Peer.run
\* Peers fed by their mailboxes with any coded symbols, k = RunK. What the
\* neighbours forward is what arrives, so the arrivals are any symbols; the
\* clock advances with every arrival handled.
RECURSIVE RankCols(_, _, _)
\* The rank of rows over n columns, from column col on.
RankCols(rows, col, n) ==
    IF Len(rows) = 0 \/ col > n THEN 0
    ELSE IF PivotRows(rows, col) = {} THEN RankCols(rows, col + 1, n)
    ELSE LET r == CHOOSE x \in PivotRows(rows, col) :
                      \A y \in PivotRows(rows, col) : x <= y
         IN  1 + RankCols(Eliminate(rows, col, r), col + 1, n)

\* Peer.isInnovative for coefficient vectors of length n.
isInnovativeOver(held, sym, n) ==
    RankCols(CoeffRows(Append(held, sym)), 1, n) = Len(held) + 1

\* A slip: the timestamp taken at every acceptance.
IsFirstAlways(held) == TRUE

\* len(p.received) == 0
IsFirst(held) == Len(held) = 0

RunPeerSet == 0 .. (RunPeers - 1)

\* The clock of these runs counts arrivals: the zero time.Time is 0, the first
\* reading of time.Now() is 1.
NoTime == 0

RECURSIVE LatencySamples(_, _)
\* if !p.firstInnovTime.IsZero() { latencies = append(latencies, ...) }, over
\* peers 0 .. n-1 (startTime is 0).
LatencySamples(t, n) ==
    IF n = 0 THEN << >>
    ELSE IF t[n - 1] # NoTime THEN Append(LatencySamples(t, n - 1), t[n - 1])
         ELSE LatencySamples(t, n - 1)

InitAccept ==
    /\ NoSimulation
    /\ gf = NoGF
    /\ call = [fn |-> "Peer.run",
               received |-> [p \in RunPeerSet |-> << >>],
               dupCount |-> [p \in RunPeerSet |-> 0],
               firstInnovTime |-> [p \in RunPeerSet |-> NoTime],
               clock |-> NoTime + 1,
               handled |-> 0]
    /\ ret = NoCall

\* case msg := <-p.inbox, coded branch.
AcceptOrReject(p) ==
    /\ call.fn = "Peer.run"
    /\ ret.fn = "none"
    /\ call.handled < MaxArrivals
    /\ \E coeff \in [1 .. RunK -> 0 .. RunMaxCoeff],
          data \in [1 .. chunkSize -> 0 .. MaxSrcByte] :
          LET sym == [Coeff |-> coeff, Data |-> data]
              held == call.received[p]
          IN IF isInnovativeOver(held, sym, RunK)
             THEN call' = [call EXCEPT
                             !.firstInnovTime[p] =
                                 IF IsFirst(held) THEN call.clock ELSE @,
                             !.received[p] = Append(held, sym),
                             !.clock = call.clock + 1,
                             !.handled = call.handled + 1]
             ELSE call' = [call EXCEPT
                             !.dupCount[p] = DupIncr(@),
                             !.clock = call.clock + 1,
                             !.handled = call.handled + 1]
    /\ UNCHANGED << gf, ret, simVars >>

\* The tally of simulate once the workers have returned.
AcceptTally ==
    /\ call.fn = "Peer.run"
    /\ ret.fn = "none"
    /\ ret' = [fn |-> "simulate",
               sumInnov |-> SumLen(call.received, RunPeers),
               sumDup |-> SumOf(call.dupCount, RunPeers),
               latencies |-> LatencySamples(call.firstInnovTime, RunPeers)]
    /\ UNCHANGED << gf, call, simVars >>

NextAccept ==
    \/ \E p \in RunPeerSet : AcceptOrReject(p)
    \/ AcceptTally

SpecAccept == InitAccept /\ [][NextAccept]_vars

\* ============================================================== claims
\* Linear algebra stated without the elimination: integer combinations with
\* coefficients of magnitude at most CombBound.
CombBound == GFSize(FieldBits) - 1

CombCoeffs(n) == [1 .. n -> (0 - CombBound) .. CombBound]

RECURSIVE CombAt(_, _, _, _)
\* Column col of c[1]*rows[1] + ... + c[n]*rows[n].
CombAt(rows, c, col, n) ==
    IF n = 0 THEN 0 ELSE c[n] * rows[n][col] + CombAt(rows, c, col, n - 1)

\* Some nontrivial combination of the rows is the zero vector.
SmallDependency(rows) ==
    \E c \in CombCoeffs(Len(rows)) :
        /\ \E i \in 1 .. Len(rows) : c[i] # 0
        /\ \A col \in 1 .. k : CombAt(rows, c, col, Len(rows)) = 0

\* A nonzero multiple of v is a combination of the rows.
IsLinComb(rows, v) ==
    \E m \in 1 .. CombBound, c \in CombCoeffs(Len(rows)) :
        \A col \in 1 .. k : m * v[col] = CombAt(rows, c, col, Len(rows))

PlainFirstAccepted(p) ==
    LET msg == Head(inbox[p])
    IN  /\ received'[p] = Append(received[p], [Coeff |-> Nil, Data |-> msg.DataOnly])
        /\ \A i \in 1 .. fanout :
              LET q == outChans[p][i]
              IN  (lossProb = 0 /\ Len(inbox[q]) < InboxCap) =>
                    /\ inbox'[q] # << >>
                    /\ inbox'[q][Len(inbox'[q])] = msg

PlainSecondNotForwarded(p) ==
    /\ received'[p] = received[p]
    /\ inbox' = [inbox EXCEPT ![p] = Tail(@)]

\* C3 as stated: the first delivery of a payload is accepted and forwarded, the
\* second is counted in the duplicate counter and not forwarded.
C3_AsStated ==
    [][\A p \in Peers :
          RunPlain(p) =>
            IF Head(inbox[p]).DataOnly \in seenChunks[p]
            THEN PlainSecondNotForwarded(p) /\ dupCount'[p] = dupCount[p] + 1
            ELSE PlainFirstAccepted(p)]_vars

\* C3 as amended: the first delivery of a payload is accepted and forwarded;
\* the second is not appended, not forwarded, and leaves every duplicate
\* counter as it was (plain gossip does not track duplicates).
C3_PlainDedup ==
    [][\A p \in Peers :
          RunPlain(p) =>
            IF Head(inbox[p]).DataOnly \in seenChunks[p]
            THEN PlainSecondNotForwarded(p) /\ dupCount' = dupCount
            ELSE PlainFirstAccepted(p) /\ dupCount' = dupCount]_vars

\* A peer that has accepted a chunk and has the same bytes at the head of its
\* inbox again.
C3_Witness ==
    /\ plain
    /\ \E p \in Peers :
          /\ alive[p]
          /\ inbox[p] # << >>
          /\ Len(received[p]) = 1
          /\ received[p][1].Data = Head(inbox[p]).DataOnly
          /\ Head(inbox[p]).DataOnly \in seenChunks[p]

\* The peers that have accepted something.
Holders == { p \in Peers : received[p] # << >> }

\* C4: in plain mode a peer records its first-acceptance timestamp when it
\* accepts its first payload, so at tally time every peer with a non-empty
\* accepted list has a set timestamp and contributes one latency sample.
C4_PlainTimestamp ==
    plain =>
        /\ \A p \in Holders : firstInnovTime[p] # ZeroTime
        /\ pc = "done" => Len(tally.latencies) = Cardinality(Holders)

\* C5: in coded mode a rejected arrival adds exactly one to the peer's
\* duplicate counter, sends nothing to any neighbour, and leaves the accepted
\* lists and the first-acceptance timestamps unchanged.
C5_RejectFrame ==
    [][\A p \in Peers :
          (/\ RunCoded(p)
           /\ Rank(CoeffRows(Append(received[p], Head(inbox[p]).Sym)))
                 # Len(received[p]) + 1)
          => /\ dupCount' = [dupCount EXCEPT ![p] = dupCount[p] + 1]
             /\ inbox' = [inbox EXCEPT ![p] = Tail(inbox[p])]
             /\ received' = received
             /\ firstInnovTime' = firstInnovTime]_vars

\* A peer that has rejected an arrival while a neighbour of it had room.
C5_Witness ==
    /\ ~plain
    /\ \E p \in Peers :
          /\ dupCount[p] > 0
          /\ \E i \in 1 .. fanout : Len(inbox[outChans[p][i]]) < InboxCap

\* C6: forward never blocks.  No mailbox holds more than its capacity; a worker
\* with a message in its inbox can always take its step and the injection loop
\* can always take its next iteration, whatever the neighbours' mailboxes hold;
\* and the run is never stuck before simulate has returned.
C6_ForwardNeverBlocks ==
    /\ \A p \in Peers : Len(inbox[p]) <= InboxCap
    /\ \A p \in Peers : (alive[p] /\ inbox[p] # << >>) => ENABLED Run(p)
    /\ (pc = "inject") => ENABLED Inject
    /\ (pc # "done") => ENABLED Next

\* Two running peers that forward to each other, with no loss draw to drop
\* anything: one mailbox is full, and the other peer is about to accept the
\* message at the head of its inbox and so to forward it into the full mailbox.
C6_Witness ==
    /\ lossProb = 0
    /\ ~plain
    /\ \E p, q \in Peers :
          /\ p # q
          /\ \E i \in 1 .. fanout : outChans[p][i] = q
          /\ \E i \in 1 .. fanout : outChans[q][i] = p
          /\ alive[p] /\ alive[q]
          /\ Len(inbox[q]) = InboxCap
          /\ inbox[p] # << >>
          /\ received[p] = << >>

\* C7: with loss probability 1, in plain and in coded mode, no peer other than
\* the origin ever accepts anything.
C7_TotalLoss ==
    lossProb = LossDen => \A p \in Peers \ {Origin} : received[p] = << >>

\* A finished run under total loss, every injection made.
C7_Witness ==
    /\ lossProb = LossDen
    /\ pc = "done"
    /\ injected = NumInject(plain)
    /\ tally.sumInnov = 0

\* The peers a symbol sent by p's forward can reach in at most n hops.
RECURSIVE ReachIn(_, _)
ReachIn(S, n) ==
    IF n = 0 THEN S
    ELSE LET T == S \cup { outChans[p][i] : p \in S, i \in 1 .. fanout }
         IN  ReachIn(T, n - 1)

\* Every peer, the origin included, is reached from the origin's neighbours.
Connected ==
    ReachIn({ outChans[Origin][i] : i \in 1 .. fanout }, numPeers) = Peers

AllReachedK == \A p \in Peers : Len(received[p]) = k

\* The injection loop is over and the injected vectors do not span rank k.
BatchDeficient == injected = NumInject(plain) /\ Len(batch) < k

\* C8: in coded mode, with loss = 0, a connected topology, an injected batch of
\* rank k, no mailbox overflow and no shutdown before quiescence, every peer's
\* accepted list eventually holds k vectors.
C8_NoLossLiveness ==
    (~plain /\ lossProb = 0 /\ Connected)
        => <>(AllReachedK \/ fullDrop \/ BatchDeficient)

\* A connected coded run without loss or overflow in which every peer holds k.
C8_Witness ==
    /\ ~plain /\ lossProb = 0 /\ Connected
    /\ ~fullDrop /\ Len(batch) = k
    /\ AllReachedK
    /\ pc = "done"

\* C9: in the end-to-end scenario (loss = 0, coded mode, 3k combinations
\* injected through the origin's neighbour list, no overflow, a batch of rank
\* k, shutdown after quiescence) every peer, the origin included, ends the run
\* with k accepted vectors, for every topology the wiring can produce.
C9_EveryPeerEndsWithK ==
    (/\ pc = "done" /\ ~plain /\ lossProb = 0
     /\ injected = 3 * k /\ ~fullDrop /\ Len(batch) = k)
        => /\ AllReachedK
           /\ tally.sumInnov = numPeers * k

RECURSIVE HandledUpTo(_)
\* Arrivals handled by peers 0 .. n-1: accepted plus duplicates.
HandledUpTo(n) ==
    IF n = 0 THEN 0
    ELSE Len(received[n - 1]) + dupCount[n - 1] + HandledUpTo(n - 1)

\* C10: in coded mode the sum over all peers of accepted count plus duplicate
\* count is at most fanout * (3k + numPeers * k).
C10_VolumeBound ==
    ~plain => HandledUpTo(numPeers) <= fanout * (3 * k + numPeers * k)

\* A run in which the bound is met with equality.
C10_Witness ==
    /\ ~plain
    /\ HandledUpTo(numPeers) = fanout * (3 * k + numPeers * k)
    /\ \E p \in Peers : dupCount[p] > 0

\* Every peer's done channel has been closed.
AllSignalled == \A p \in Peers : done[p]

\* C11: once the orchestrator has closed every done channel, every worker
\* eventually returns and wg.Wait() returns, whatever the mailboxes hold; and
\* from then on no worker with a message is held up by a neighbour's mailbox,
\* the neighbour running or not.
C11_ShutdownTerminates ==
    /\ AllSignalled ~> ((\A p \in Peers : ~alive[p]) /\ pc = "done")
    /\ [](AllSignalled =>
            \A p \in Peers : (alive[p] /\ inbox[p] # << >>) => ENABLED Run(p))

\* A run that has returned while a mailbox still held messages.
C11_Witness ==
    /\ pc = "done"
    /\ \A p \in Peers : ~alive[p]
    /\ \E p \in Peers : Len(inbox[p]) = InboxCap

\* The fields of peer p that its worker writes.
PeerFields(p) == << received[p], dupCount[p], firstInnovTime[p], seenChunks[p] >>

\* C12: the tally is taken only once every worker has returned, nothing
\* changes a peer's accepted list, duplicate counter or timestamp from then
\* on, and before that only the peer's own running worker, in a step of its
\* loop, changes them; the orchestrator's record of them changes in the tally
\* alone and holds their final values.
C12_TallyAfterJoin ==
    [][/\ (pc # "done" /\ pc' = "done") => \A p \in Peers : ~alive[p]
       /\ (tally' # tally) => (pc = "wait" /\ \A p \in Peers : ~alive[p])
       /\ \A p \in Peers :
             (PeerFields(p)' # PeerFields(p)) =>
                 /\ alive[p] /\ Run(p)
                 /\ pc' # "done"
                 /\ \A q \in Peers \ {p} : PeerFields(q)' = PeerFields(q)
       /\ (pc' = "done") =>
             /\ tally'.sumInnov = SumLen(received', numPeers)
             /\ tally'.sumDup = SumOf(dupCount', numPeers)]_vars

\* A tallied coded run in which peers accepted and rejected symbols.
C12_Witness ==
    /\ pc = "done"
    /\ tally.sumInnov > 0
    /\ tally.sumDup > 0

\* C13: once a peer's done channel is closed the peer handles no further
\* message: it takes nothing from its inbox, accepts nothing, counts nothing
\* and forwards nothing, even when its inbox is non-empty.
C13_NoStepAfterSignal ==
    [][\A p \in Peers :
          done[p] =>
              /\ ~Run(p)
              /\ PeerFields(p)' = PeerFields(p)
              /\ Len(inbox'[p]) >= Len(inbox[p])]_vars

\* C14: once the workers are started every peer has exactly WireFanout
\* outbound neighbours, pairwise distinct and none of them the peer itself,
\* and the lists do not change afterwards.
C14_DistinctNeighbours ==
    /\ [](pc # "wire" =>
            \A p \in Peers :
                /\ Len(outChans[p]) = WireFanout
                /\ \A i \in 1 .. WireFanout : outChans[p][i] # p
                /\ \A i, j \in 1 .. WireFanout :
                      i # j => outChans[p][i] # outChans[p][j])
    /\ [][pc # "wire" => outChans' = outChans]_vars

\* C15: every symbol mixSymbol returns has a coefficient vector of length
\* exactly the number of source symbols, not all zero; and when every draw was
\* zero the vector has exactly one 1 and zeros elsewhere.
C15_CoeffNonZero ==
    ret.fn = "mixSymbol" =>
        LET coeff == ret.sym.Coeff
        IN  /\ Len(coeff) = MixK
            /\ \E i \in 1 .. MixK : coeff[i] # 0
            /\ (\A i \in 1 .. MixK : call.draws[i] = 0) =>
                  /\ Cardinality({ i \in 1 .. MixK : coeff[i] = 1 }) = 1
                  /\ Cardinality({ i \in 1 .. MixK : coeff[i] # 0 }) = 1
            /\ (\E i \in 1 .. MixK : call.draws[i] # 0) => coeff = call.draws

\* A call whose draws were all zero has returned.
C15_Witness ==
    /\ ret.fn = "mixSymbol"
    /\ \A i \in 1 .. MixK : call.draws[i] = 0
    /\ ret.sym.Coeff[call.idx] = 1

RECURSIVE XorAll(_, _, _, _, _)
\* Mul(src[1][j], coeff[1]) xor ... xor Mul(src[n][j], coeff[n]).
XorAll(bits, src, coeff, j, n) ==
    IF n = 0 THEN 0
    ELSE Xor(XorAll(bits, src, coeff, j, n - 1), Mul(bits, src[n][j], coeff[n]))

\* C16: every payload byte j of the returned symbol is the exclusive-or over
\* all source symbols i of Mul(src[i][j], coeff[i]), and the source symbols are
\* as they were before the call.
C16_PayloadIsXorOfProducts ==
    ret.fn = "mixSymbol" =>
        /\ Len(ret.sym.Data) = chunkSize
        /\ \A j \in 1 .. chunkSize :
              ret.sym.Data[j] = XorAll(gf.bits, call.src, ret.sym.Coeff, j, MixK)
        /\ ret.src = call.src

\* A returned symbol mixing two source symbols with nonzero coefficients, one
\* product being nonzero and the other zero although its coefficient is not.
C16_Witness ==
    /\ ret.fn = "mixSymbol"
    /\ \A i \in 1 .. MixK : ret.sym.Coeff[i] # 0
    /\ \E i, i2 \in 1 .. MixK :
          /\ Mul(gf.bits, call.src[i][1], ret.sym.Coeff[i]) # 0
          /\ call.src[i2][1] # 0
          /\ Mul(gf.bits, call.src[i2][1], ret.sym.Coeff[i2]) = 0

\* C17: GF.Mul is commutative and annihilates on zero, a call returns what the
\* table holds for its operands, and the table does not change once NewGF has
\* returned.
C17_MulCommutative ==
    /\ [](ret.fn = "Mul" =>
            /\ ret.val = gf.mulTable[call.a][call.b]
            /\ ret.val = gf.mulTable[call.b][call.a]
            /\ (call.a = 0 \/ call.b = 0) => ret.val = 0)
    /\ [](gf # NoGF =>
            \A a \in TableIdx(gf.bits) :
                /\ gf.mulTable[a][0] = 0
                /\ gf.mulTable[0][a] = 0)
    /\ [][gf # NoGF => gf' = gf]_vars

\* A call with two different nonzero operands whose product is not zero.
C17_Witness ==
    /\ ret.fn = "Mul"
    /\ call.a # 0 /\ call.b # 0 /\ call.a # call.b
    /\ ret.val # 0
    /\ gf.bits = 16

\* C18: for both field sizes Mul(a, b) is (a * b) mod size with size = 2^bits,
\* and makeCoeff returns the value drawn from 0 .. size-1, so every value of
\* that range can be a coefficient.
C18_MulIsProductModSize ==
    /\ ret.fn = "Mul" => ret.val = (call.a * call.b) % Pow2(gf.bits)
    /\ ret.fn = "makeCoeff" => ret.val = call.r

\* The nonzero elements the table rows are looked at on.
NonZero == TableIdx(gf.bits) \ {0}

C21_FactorizeFailureIsDuplicate ==
    [][\A p \in Peers :
          RunCodedFail(p) =>
              /\ dupCount' = [dupCount EXCEPT ![p] = dupCount[p] + 1]
              /\ inbox' = [inbox EXCEPT ![p] = Tail(inbox[p])]
              /\ received' = received
              /\ firstInnovTime' = firstInnovTime
              /\ alive'[p]]_vars

\* A running peer that holds nothing and has counted a duplicate: with an
\* empty accepted list only a failed factorization rejects an arrival.
C21_Witness ==
    /\ ~plain
    /\ \E p \in Peers :
          /\ alive[p]
          /\ received[p] = << >>
          /\ dupCount[p] > 0

\* C22: with a field size other than 8 or 16 main reports the error and
\* returns: no field table is ever built, no simulation is run, no peer is
\* started.
C22_BadFieldStops ==
    (ret.fn = "main" /\ call.fieldBits \notin {8, 16}) =>
        /\ ret.err
        /\ ret.stage = "exit"
        /\ ret.ran = << >>
        /\ gf = NoGF
        /\ \A p \in Peers : ~alive[p]

\* main has returned on a bad field size although -multihop was asked for.
C22_Witness ==
    /\ ret.fn = "main"
    /\ ret.err
    /\ call.multihop
    /\ call.fieldBits = 9

\* C23: in simulateRS every peer is reached by each of the 2k shards once; at
\* every moment a peer's distinct shards plus its duplicate count is the
\* number of its offers that passed the loss draw, at most 2k; without loss
\* every peer gets all 2k, and under total loss no peer holds a shard and no
\* latency sample is taken.
C23_ShardOffers ==
    call.fn = "simulateRS" =>
        \A p \in Peers :
            /\ Cardinality(seenChunks[p]) + dupCount[p] = call.offers[p]
            /\ call.offers[p] <= call.tried[p]
            /\ call.tried[p] <= 2 * k
            /\ ret.fn = "simulateRS" =>
                  /\ call.tried[p] = 2 * k
                  /\ call.lossProb = 0 => call.offers[p] = 2 * k
                  /\ call.lossProb = LossDen =>
                        /\ seenChunks[p] = {}
                        /\ tally.latencies = << >>
                        /\ tally.sumInnov = 0

\* A finished run in which one peer counted a repeated shard and another lost
\* an offer.
C23_Witness ==
    /\ ret.fn = "simulateRS"
    /\ \E p, q \in Peers :
          /\ dupCount[p] > 0
          /\ call.offers[q] < 2 * k
          /\ seenChunks[q] # {}

\* The multi-hop RLNC call has returned.
MhReturned == ret.fn = "simulateMultihopRLNC"

\* C24 as stated: with loss = 0 the destination count is at least k, for every
\* hop count and every outcome of the coefficient draws.
C24_AsStated ==
    (MhReturned /\ call.lossProb = 0) => ret.count >= MhK

\* The distinct coefficient vectors among the symbols held at the destination.
DestVectors == { call.curr[i].Coeff : i \in 1 .. Len(call.curr) }

\* C24 as amended: with loss = 0 the destination holds 2k combinations and the
\* count returned is the number of distinct coefficient vectors among them, at
\* least 1 and at most 2k; it reaches k only when the draws give at least k
\* distinct vectors.
C24_CountIsDistinctVectors ==
    (MhReturned /\ call.lossProb = 0) =>
        /\ Len(call.curr) = 2 * MhK
        /\ ret.count = Cardinality(DestVectors)
        /\ ret.count >= 1
        /\ ret.count <= 2 * MhK

\* A loss-free run over the largest hop count whose draws repeated one vector
\* only, the count being above k all the same.
C24_Witness ==
    /\ MhReturned
    /\ call.lossProb = 0
    /\ call.hops = MaxHops
    /\ call.h = MaxHops
    /\ ret.count > MhK
    /\ ret.count < 2 * MhK

RECURSIVE Sel(_, _, _)
\* The elements of s at the positions >= i that are in keep, in order.
Sel(s, keep, i) ==
    IF i > Len(s) THEN << >>
    ELSE IF i \in keep THEN << s[i] >> \o Sel(s, keep, i + 1)
         ELSE Sel(s, keep, i + 1)

\* sym's payload is a combination, not all coefficients zero, of the payloads
\* of the symbols held.
IsCombinationOf(sym, held) ==
    \E c \in [1 .. Len(held) -> CoeffVals(gf.bits)] :
        /\ \E i \in 1 .. Len(held) : c[i] # 0
        /\ \A j \in 1 .. chunkSize :
              sym.Data[j] = XorAll(gf.bits, Datas(held), c, j, Len(held))

\* C25: a stage keeps a sub-selection of the held symbols (all of them without
\* loss, none under total loss); with at least k survivors it replaces the
\* held set by exactly 2k combinations of the survivors and moves to the next
\* hop; with fewer than k it halts: the held set becomes the survivors and no
\* later step applies loss or recodes, so the destination holds exactly them.
C25_StageRule ==
    [][/\ (call.stage = "hop" /\ call'.stage = "lost") =>
             /\ \E keep \in SUBSET (1 .. Len(call.curr)) :
                   call'.next = Sel(call.curr, keep, 1)
             /\ call.lossProb = 0 => call'.next = call.curr
             /\ call.lossProb = LossDen => call'.next = << >>
       /\ (call.stage = "lost" /\ Len(call.next) >= MhK) =>
             /\ call'.stage = "hop"
             /\ call'.h = call.h + 1
             /\ Len(call'.curr) = 2 * MhK
             /\ \A i \in 1 .. (2 * MhK) : IsCombinationOf(call'.curr[i], call.next)
       /\ (call.stage = "lost" /\ Len(call.next) < MhK) =>
             /\ call'.stage = "count"
             /\ call'.halted
             /\ call'.curr = call.next
             /\ call'.h = call.h
       /\ call.halted =>
             /\ call'.stage = "done"
             /\ call'.curr = call.next
             /\ call'.next = call.next
             /\ call'.h = call.h
             /\ ret'.count = Len(CountFrom(call.next, << >>, 1))]_vars

\* A run that recoded at its first stage, halted at its second with one
\* survivor, and has returned.
C25_Witness ==
    /\ MhReturned
    /\ call.halted
    /\ call.h = 1
    /\ Len(call.next) = MhK - 1
    /\ ret.count = 1

\* C26: when a stage is about to recode from s >= k survivors, every survivor
\* can get a nonzero coefficient in a symbol mixSymbol may return.
C26_EverySurvivorContributes ==
    (call.fn = "simulateMultihopRLNC" /\ call.stage = "lost"
        /\ Len(call.next) >= MhK) =>
        \A i \in 1 .. Len(call.next) :
            \E sym \in MixSymbolsOf(gf.bits, Datas(call.next), MhK) :
                /\ i <= Len(sym.Coeff)
                /\ sym.Coeff[i] # 0

\* The distinct byte strings in a slice of shards.
ShardSet(s) == { s[i] : i \in 1 .. Len(s) }

\* C27: a hop of the erasure-code chain only drops shards: what is held after
\* it is a sub-selection of what was held before, so the number of distinct
\* shards never grows from hop to hop; the count returned is at most 2k, is
\* the number of distinct shards produced when loss = 0, and is 0 when
\* loss = 1 and there is at least one hop.
C27_NoRecoding ==
    /\ [][(call'.h = call.h + 1) =>
             /\ \E keep \in SUBSET (1 .. Len(call.curr)) :
                   call'.curr = Sel(call.curr, keep, 1)
             /\ ShardSet(call'.curr) \subseteq ShardSet(call.curr)
             /\ Cardinality(ShardSet(call'.curr)) <= Cardinality(ShardSet(call.curr))]_vars
    /\ [](ret.fn = "simulateMultihopRS" =>
             /\ ret.count = Cardinality(ShardSet(call.curr))
             /\ ret.count <= Cardinality(ShardSet(call.shards))
             /\ ret.count <= 2 * MhK
             /\ call.lossProb = 0 => ret.count = Cardinality(ShardSet(call.shards))
             /\ (call.lossProb = LossDen /\ call.hops >= 1) => ret.count = 0)

\* A lossy run over the largest hop count that lost some distinct shards and
\* kept others.
C27_Witness ==
    /\ ret.fn = "simulateMultihopRS"
    /\ call.hops = MaxHops
    /\ ret.count > 0
    /\ ret.count < Cardinality(ShardSet(call.shards))

\* v is the sample that stands at index i (from 0) when the samples of s are
\* put in non-decreasing order: at most i samples are below v, more than i
\* are at or below it.
IsOrderStatistic(v, s, i) ==
    /\ \E j \in 1 .. Len(s) : s[j] = v
    /\ Cardinality({ j \in 1 .. Len(s) : s[j] < v }) <= i
    /\ Cardinality({ j \in 1 .. Len(s) : s[j] <= v }) > i

\* C28: computeLatencyStats returns (0, 0) for no samples and never indexes
\* out of range; for n >= 1 samples p50 is the sample at sorted index
\* floor(n*50/100) and p95 the one at floor(n*95/100), both are samples of the
\* input, and p50 <= p95.
C28_Percentiles ==
    ret.fn = "computeLatencyStats" =>
        LET n == Len(call.input)
        IN /\ ~ret.panic
           /\ n = 0 => (ret.p50 = 0 /\ ret.p95 = 0)
           /\ n > 0 =>
                 /\ IsOrderStatistic(ret.p50, call.input, (n * 50) \div 100)
                 /\ IsOrderStatistic(ret.p95, call.input, (n * 95) \div 100)
                 /\ ret.p50 <= ret.p95

\* The most samples, handed over out of order, with the two percentiles
\* apart.
C28_Witness ==
    /\ ret.fn = "computeLatencyStats"
    /\ Len(call.input) = MaxSamples
    /\ call.input # call.latencies
    /\ ret.p50 < ret.p95

\* The m most recently added packets, oldest first.
MostRecent(m) ==
    [i \in 1 .. m |-> call.added[Len(call.added) - m + i]]

\* C29: a SlidingWindow of size s never holds more than 2*s packets, what it
\* holds is in insertion order (the most recently added packets, oldest
\* first), and GetWindowPackets returns the min(len, s) most recently added
\* packets of the buffer in that order.
C29_WindowBuffer ==
    call.fn = "SlidingWindow" =>
        LET len == Len(call.sw.packets)
            s == call.sw.size
            m == IF len < s THEN len ELSE s
        IN /\ len <= 2 * s
           /\ len <= Len(call.added)
           /\ call.sw.packets = MostRecent(len)
           /\ ret.fn = "GetWindowPackets" => ret.pkts = MostRecent(m)

\* A full buffer of the largest window that has evicted a packet, read with
\* GetWindowPackets.
C29_Witness ==
    /\ call.fn = "SlidingWindow"
    /\ ret.fn = "GetWindowPackets"
    /\ call.sw.size = MaxWindowSize
    /\ Len(call.sw.packets) = 2 * MaxWindowSize
    /\ call.sw.base > 0
    /\ Len(ret.pkts) = MaxWindowSize
    /\ \E i \in 1 .. Len(ret.pkts) : ret.pkts[i] # ret.pkts[1]

\* C30: SlideWindow(ackCount) with 0 < ackCount <= len(packets) removes the
\* ackCount oldest packets and adds ackCount to base; with any other ackCount
\* it changes neither; size is never changed.
C30_SlideWindowFrame ==
    [][(call.fn = "SlidingWindow" /\ ret'.fn = "SlideWindow") =>
         LET a == ret'.ackCount
             len == Len(call.sw.packets)
         IN /\ call'.sw.size = call.sw.size
            /\ call'.added = call.added
            /\ (0 < a /\ a <= len) =>
                  /\ Len(call'.sw.packets) = len - a
                  /\ \A i \in 1 .. (len - a) :
                        call'.sw.packets[i] = call.sw.packets[i + a]
                  /\ call'.sw.base = call.sw.base + a
            /\ ~(0 < a /\ a <= len) =>
                  /\ call'.sw.packets = call.sw.packets
                  /\ call'.sw.base = call.sw.base]_vars

\* An acknowledgement of the whole buffer, of two packets or more, that
\* emptied it.
C30_Witness ==
    /\ call.fn = "SlidingWindow"
    /\ ret.fn = "SlideWindow"
    /\ ret.ackCount >= 2
    /\ ret.ackCount = ret.before
    /\ Len(call.sw.packets) = 0
    /\ call.sw.base >= ret.ackCount

\* C31: ReceivePacket on a data packet returns true and the packet is in the
\* decoded map under its ID when the call returns, whatever the receiver's
\* window holds and whatever coded packets came before.
C31_DataPacketDecodedAtOnce ==
    (call.fn = "simulateSlidingWindowRLNC" /\ ret.fn = "ReceivePacket"
       /\ ~ret.pkt.IsCoded) =>
        /\ ret.ok
        /\ ret.pkt.ID \in DOMAIN call.receiver.decoded
        /\ call.receiver.decoded[ret.pkt.ID] = ret.pkt

\* A data packet received into a full receiver window that has evicted a
\* packet and still holds a coded one.
C31_Witness ==
    /\ call.fn = "simulateSlidingWindowRLNC"
    /\ ret.fn = "ReceivePacket"
    /\ ~ret.pkt.IsCoded
    /\ call.receiver.window.base > 0
    /\ \E i \in 1 .. Len(call.receiver.window.packets) :
          call.receiver.window.packets[i].IsCoded

RECURSIVE XorRecent(_, _, _, _, _)
\* Byte j of the exclusive-or of coefficient times data over the m most
\* recent packets of buf, taken from the newest back; t of them are done.
XorRecent(buf, coeffs, j, m, t) ==
    IF t = m THEN 0
    ELSE Xor(((buf[Len(buf) - t].Data[j] * coeffs[m - t]) % fieldSize) % 256,
             XorRecent(buf, coeffs, j, m, t + 1))

\* C32: CreateCodedPacket returns nil exactly when the sender's window holds
\* no packet; otherwise the packet carries one coefficient for each of the
\* min(len, size) most recent packets of the buffer and its payload is the
\* combination of those packets alone; the call changes neither the window
\* nor the packet ID counter.
C32_CodedFromWindowOnly ==
    /\ []((call.fn = "Sender" /\ ret.fn = "CreateCodedPacket") =>
            LET buf == call.sender.window.packets
                size == call.sender.window.size
                m == IF Len(buf) < size THEN Len(buf) ELSE size
            IN /\ (ret.pkt = NilPacket) <=> (Len(buf) = 0)
               /\ ret.pkt # NilPacket =>
                     /\ ret.pkt.IsCoded
                     /\ m <= size
                     /\ Len(ret.pkt.Coeffs) = m
                     /\ \A j \in 1 .. chunkSize :
                           ret.pkt.Data[j] = XorRecent(buf, ret.pkt.Coeffs, j, m, 0))
    /\ [][(call.fn = "Sender" /\ ret'.fn = "CreateCodedPacket") =>
             call'.sender = call.sender]_vars

\* A coded packet made after a slide from a buffer that holds more packets
\* than the window, with a non-zero payload.
C32_Witness ==
    /\ call.fn = "Sender"
    /\ ret.fn = "CreateCodedPacket"
    /\ ret.pkt # NilPacket
    /\ call.sender.window.base > 0
    /\ Len(call.sender.window.packets) > call.sender.window.size
    /\ \E j \in 1 .. chunkSize : ret.pkt.Data[j] # 0

\* C33: in coded mode no peer ever holds more than k accepted vectors; a peer
\* that holds k rejects every further arrival and counts it as a duplicate;
\* and an accepted list changes only by one symbol appended at its end.
C33_AcceptedAtMostK ==
    /\ [](~plain => \A p \in Peers : Len(received[p]) <= k)
    /\ [][~plain =>
            \A p \in Peers :
               /\ (RunCoded(p) /\ Len(received[p]) = k) =>
                     /\ received'[p] = received[p]
                     /\ dupCount'[p] = dupCount[p] + 1
               /\ \/ received'[p] = received[p]
                  \/ /\ Len(received'[p]) = Len(received[p]) + 1
                     /\ SubSeq(received'[p], 1, Len(received[p])) = received[p]]_vars

\* A peer that holds k accepted vectors and has rejected an arrival, with
\* another arrival waiting.
C33_Witness ==
    /\ ~plain
    /\ \E p \in Peers :
          /\ Len(received[p]) = k
          /\ dupCount[p] > 0
          /\ inbox[p] # << >>

\* C34: in coded mode a peer's first-acceptance timestamp changes only at the
\* acceptance that takes its accepted list from empty to one element, when it
\* is set to the time of that acceptance, and never afterwards; it is set
\* exactly when the accepted list is non-empty, and the tally has one latency
\* sample for each peer that accepted at least one symbol.
C34_TimestampSetOnce ==
    /\ [](call.fn = "Peer.run" =>
            /\ \A p \in RunPeerSet :
                  (call.firstInnovTime[p] # NoTime) <=> (Len(call.received[p]) > 0)
            /\ ret.fn = "simulate" =>
                  Len(ret.latencies)
                     = Cardinality({ p \in RunPeerSet : Len(call.received[p]) > 0 }))
    /\ [][call.fn = "Peer.run" =>
            \A p \in RunPeerSet :
               /\ (call'.firstInnovTime[p] # call.firstInnovTime[p]) =>
                     /\ call.firstInnovTime[p] = NoTime
                     /\ Len(call.received[p]) = 0
                     /\ Len(call'.received[p]) = 1
               /\ (Len(call.received[p]) = 0 /\ Len(call'.received[p]) = 1) =>
                     call'.firstInnovTime[p] = call.clock]_vars

\* A tally after one peer accepted k symbols, the second of them later than
\* the first, while another peer accepted none and rejected an arrival.
C34_Witness ==
    /\ call.fn = "Peer.run"
    /\ ret.fn = "simulate"
    /\ Len(ret.latencies) = 1
    /\ \E p, q \in RunPeerSet :
          /\ Len(call.received[p]) = RunK
          /\ call.firstInnovTime[p] + 1 < call.clock
          /\ Len(call.received[q]) = 0
          /\ call.dupCount[q] > 0

\* C35: the destination of the multi-hop RLNC chain holds exactly 2k symbols
\* or fewer than k; the count returned lies between 0 and 2k and is 0 exactly
\* when nothing is held.
C35_DestinationSize ==
    MhReturned =>
        /\ \/ Len(call.curr) = 2 * MhK
           \/ Len(call.curr) < MhK
        /\ ret.count >= 0
        /\ ret.count <= 2 * MhK
        /\ (ret.count = 0) <=> (Len(call.curr) = 0)

\* A run that recoded once, then lost every symbol, and returned 0.
C35_Witness ==
    /\ MhReturned
    /\ call.halted
    /\ call.h >= 1
    /\ Len(call.curr) = 0
    /\ ret.count = 0

\* The payload of sym is the combination of the source symbols that its own
\* coefficient vector gives.
CodedSymbolInvariant(sym) ==
    \A j \in 1 .. chunkSize :
       sym.Data[j] = XorAll(gf.bits, call.src, sym.Coeff, j, MhK)

\* C36: every symbol held at any stage of the multi-hop RLNC chain, recoded
\* ones included, has as payload the combination of the original source
\* symbols given by its own coefficient vector.
C36_RecodedSymbolsKeepInvariant ==
    call.fn = "simulateMultihopRLNC" =>
        /\ \A i \in 1 .. Len(call.curr) : CodedSymbolInvariant(call.curr[i])
        /\ \A i \in 1 .. Len(call.next) : CodedSymbolInvariant(call.next[i])

RECURSIVE OracleFrom(_, _, _)
\* What the rank oracle of Peer.isInnovative accepts of list[i ..] when it
\* already holds held.
OracleFrom(list, held, i) ==
    IF i > Len(list) THEN held
    ELSE OracleFrom(list,
                    IF isInnovativeOver(held, list[i], MhK)
                    THEN Append(held, list[i]) ELSE held,
                    i + 1)

\* C40: on every list of coded symbols (the symbols held at a stage, and the
\* survivors of its loss step) the pairwise coefficient-inequality
\* count of the multi-hop destination is at least the number of symbols the
\* rank oracle accepts from the same list in the same order, and the oracle
\* never accepts more than k.
C40_ProxyAtLeastOracle ==
    call.fn = "simulateMultihopRLNC" =>
        LET list == IF call.stage = "lost" THEN call.next ELSE call.curr
            proxy == Len(CountFrom(list, << >>, 1))
            oracle == Len(OracleFrom(list, << >>, 1))
        IN /\ proxy >= oracle
           /\ oracle <= MhK
           /\ MhReturned => ret.count = proxy

\* A destination where the proxy reports more than k innovative symbols while
\* the oracle accepts k.
C40_Witness ==
    /\ MhReturned
    /\ ret.count > MhK
    /\ Len(OracleFrom(call.curr, << >>, 1)) = MhK

\* C37: for every SlidingWindow base + len(packets) is the number of packets
\* ever added, and every call advances base by exactly the number of packets
\* it removed from the front of the buffer, be it the overflow eviction of
\* AddPacket or the slide of SlideWindow.
C37_BaseCountsRemovals ==
    /\ [](call.fn = "SlidingWindow" =>
            call.sw.base + Len(call.sw.packets) = Len(call.added))
    /\ [][call.fn = "SlidingWindow" =>
            LET offered == Len(call.sw.packets) + (Len(call'.added) - Len(call.added))
                removed == offered - Len(call'.sw.packets)
            IN /\ removed >= 0
               /\ call'.sw.base = call.sw.base + removed
               /\ \A i \in 1 .. Len(call'.sw.packets) :
                     call'.sw.packets[i] = call'.added[call'.sw.base + i]]_vars

\* A slide that removed packets from a window which had already lost others
\* and still holds some, after the most additions.
C37_Witness ==
    /\ call.fn = "SlidingWindow"
    /\ ret.fn = "SlideWindow"
    /\ ret.ackCount >= 1
    /\ ret.ackCount <= ret.before
    /\ call.sw.base > ret.ackCount
    /\ Len(call.sw.packets) > 0
    /\ Len(call.added) = MaxAdds

\* C38: in the sliding-window simulation every entry of the receiver's decoded
\* map is a data packet that was handed to the receiver, stored under its own
\* ID; a data packet dropped by the loss draw never gets in, whatever coded
\* packets arrive later; so the decoded count is at most the number of
\* delivered data packets, which is at most totalPackets.
C38_DecodedWereDelivered ==
    call.fn = "simulateSlidingWindowRLNC" =>
        LET decoded == call.receiver.decoded
        IN /\ \A id \in DOMAIN decoded :
                 /\ decoded[id] \in call.delivered
                 /\ ~decoded[id].IsCoded
                 /\ decoded[id].ID = id
           /\ Cardinality(DOMAIN decoded) <= Cardinality(call.delivered)
           /\ Cardinality(call.delivered) <= totalPackets
           /\ ret.fn = "simulateSlidingWindowRLNC" =>
                 ret.received <= Cardinality(call.delivered)

\* A coded packet that mixes in a data packet the receiver never got, received
\* and decoded successfully by a receiver that holds other data packets.
C38_Witness ==
    /\ call.fn = "simulateSlidingWindowRLNC"
    /\ ret.fn = "ReceivePacket"
    /\ ret.pkt.IsCoded
    /\ ret.ok
    /\ DOMAIN call.receiver.decoded # {}
    /\ LET wp == GetWindowPackets(call.sender.window)
       IN \E i \in 1 .. Len(wp) :
             /\ wp[i] \notin call.delivered
             /\ ret.pkt.Coeffs[i] # 0
             /\ wp[i].Data # [j \in 1 .. chunkSize |-> 0]

\* C39: the receiver holds exactly one delay sample per decoded packet.
C39_OneDelayPerDecoded ==
    call.fn = "simulateSlidingWindowRLNC" =>
        Len(call.receiver.delays) = Cardinality(DOMAIN call.receiver.decoded)

====
